---------------------------- MODULE Spec2Model ----------------------------
(***************************************************************************)
(* Position ledger of the dex-trading-agent: the paper engine              *)
(* (services/paper_trading_service.py, PaperTradingEngine) and the         *)
(* backtest engine (services/backtesting_service.py, BacktestingService).  *)
(*                                                                         *)
(* Python floats are modelled as exact rationals [num, den] in lowest      *)
(* terms with den > 0, so that `/` is true division and equal values are   *)
(* equal records.  Python dicts are records, None is the record None,      *)
(* lists are sequences.  Wall-clock timestamps (datetime.utcnow()) are     *)
(* left out of the records: no operation reads them.                       *)
(***************************************************************************)
EXTENDS Integers, Sequences, FiniteSets, TLC

(***************************************************************************)
(* Exact rational arithmetic.                                              *)
(***************************************************************************)
Abs(x) == IF x < 0 THEN -x ELSE x

RECURSIVE GCD(_, _)
GCD(a, b) == IF b = 0 THEN a ELSE GCD(b, a % b)

\* n/d in lowest terms, d # 0
Rat(n, d) ==
    LET g == GCD(Abs(n), Abs(d))
        s == IF d < 0 THEN -1 ELSE 1
    IN  [num |-> s * (n \div g), den |-> s * (d \div g)]

R(n) == [num |-> n, den |-> 1]

RAdd(a, b) == Rat(a.num * b.den + b.num * a.den, a.den * b.den)
RSub(a, b) == Rat(a.num * b.den - b.num * a.den, a.den * b.den)
RMul(a, b) == Rat(a.num * b.num, a.den * b.den)
RDiv(a, b) == Rat(a.num * b.den, a.den * b.num)
RLt(a, b) == a.num * b.den < b.num * a.den
RLe(a, b) == a.num * b.den <= b.num * a.den
RGt(a, b) == RLt(b, a)
RGe(a, b) == RLe(b, a)
RZero == R(0)

\* Python's None, and the truth value of an optional number
\* (`if position.get('stopLoss'):` is false for None and for 0).
None == [none |-> TRUE]
Truthy(x) == x # None /\ x # RZero

Last(s) == s[Len(s)]

(***************************************************************************)
(* Bounds and input domains.                                               *)
(***************************************************************************)
\* default initial balance of both engines
InitialBalance == 10000

\* longest order log the model explores
MaxOrders == 2
\* longest backtest trade list the model explores
MaxTrades == 2
\* buys of one unit on two symbols, with stops set in between
AddSizes == {R(1)}
\* run_backtest: the longest price series, the end dates (start_date is
\* minute 0), the intervals in minutes, and what _get_ai_decision hands
\* back for a tick
MaxTicks == 2
EndDates == {-1, 0, 1}
Intervals == {0, 1}
Decisions ==
    {[none |-> TRUE], [action |-> "open_long"], [action |-> "open_short"],
     [action |-> "hold"]}
\* the default settings, and the whole balance in one position
RunSettings ==
    {[leverage |-> R(1), takeProfitPercent |-> R(5), stopLossPercent |-> R(2),
      maxPositionSize |-> size] : size \in {[num |-> 1, den |-> 2], R(1)}}

\* HyperliquidService: the legs a caller places, how many calls the model
\* follows, what the meta request, the signer and a POST to /exchange can
\* answer, and the shapes of the exchange's JSON answer to an order
LiveLegs == {"order", "stop_loss", "take_profit"}
MaxLegs == 3
IndexAnswers == {"found", "missing", "network"}
PostOutcomes == {"ok", "lost", "timeout", "status"}
ResultShapes == {"resting", "filled", "empty", "err"}

Symbols == {"BTC", "ETH"}
Sizes == {R(1), R(2)}
Prices == {R(3000), R(3150)}
MarkPrices == {R(3000), R(3100), R(3150)}
StopPrices == {R(3100)}
Sides == {"buy", "sell"}
BtSymbols == {"BTC"}
BtPrices == {R(1000), R(2000)}
BtActions == {"open_long", "open_short"}
BtReasons == {"TP/SL triggered", "Backtest ended"}
Times == {1}
\* MarketDataService: symbols asked for, prices the sources answer with,
\* the networks, and the last second the clock of the model reaches
FeedSymbols == {"BTCUSD", "ETHUSD"}
FeedPrices == {R(100), R(101)}
Networks == {FALSE, TRUE}
MaxTime == 5
\* a network round to the sources takes no time or one second
Delays == {0, 1}
\* PriceStreamService: the symbol lists start() is called with, the
\* callbacks (each subscribed once at most), what a fetch answers, and how
\* many start() coroutines the model follows at a time
SymbolLists == {<<"BTCUSD", "ETHUSD">>}
Callbacks == {"a", "b"}
StreamPrices ==
    [s \in {"BTCUSD", "ETHUSD"} |->
        IF s = "BTCUSD" THEN {R(100), R(101)} ELSE {R(200)}]
MaxLoops == 2
\* the market data service next to a running price stream: the one symbol
\* the stream polls and the feed is asked for
TierSymbolLists == {<<"BTCUSD">>}
TierSymbols == {"BTCUSD"}
\* all three sources failing, or all three answering the same price
TierAnswerSets ==
    {[src \in {"hyperliquid", "binance", "kucoin"} |-> a] :
        a \in {[none |-> TRUE]} \cup FeedPrices}
\* arguments outside the ranges above: zero and negative sizes and prices,
\* one large size and one small price
WideSymbols == {"BTC"}
WideSizes == {R(-1), R(0), R(3)}
WidePrices == {R(-300), R(0), R(300), R(3000)}
WideBtPrices == {R(-1000), R(0), R(1000)}

VARIABLES
    context,        \* execution context exercised: "paper" or "backtest"
    balance,        \* PaperTradingEngine.balance
    initial_balance,\* PaperTradingEngine.initial_balance
    positions,      \* PaperTradingEngine.positions: symbol -> position dict
    orders,         \* PaperTradingEngine.orders
    trade_history,  \* PaperTradingEngine.trade_history
    position,       \* BacktestingService.position (None or a dict)
    bt_balance,     \* BacktestingService.balance
    trades,         \* BacktestingService.trades
    call,           \* the last call made on the engine, with its arguments
    ret,            \* what that call returned
    log,            \* the logger lines that call emitted
    price_cache,    \* MarketDataService.price_cache: key -> {price, timestamp}
    now,            \* datetime.now(), in seconds
    fetched,        \* the requests that call made to the price sources
    is_running,     \* PriceStreamService.is_running
    symbols,        \* PriceStreamService.symbols
    stream_cache,   \* PriceStreamService.price_cache: symbol -> PriceSnapshot
    subscribers,    \* PriceStreamService.subscribers
    loops,          \* the start() coroutines: where each stands, its locals
    run,            \* run_backtest: where the call stands, its arguments and
                    \* locals, and the curve fields of the service
    live,           \* HyperliquidService: the leg under way, where it stands
    exchange,       \* the payloads the /exchange endpoint has received
    leg_results     \* what the legs called so far have returned

paperVars == <<balance, initial_balance, positions, orders, trade_history>>
btVars == <<position, bt_balance, trades, run>>
feedVars == <<price_cache, now, fetched>>
streamVars == <<is_running, symbols, stream_cache, subscribers, loops>>
liveVars == <<live, exchange, leg_results>>
vars == <<context, balance, initial_balance, positions, orders, trade_history,
          position, bt_balance, trades, call, ret, log, price_cache, now, fetched,
          is_running, symbols, stream_cache, subscribers, loops, run,
          live, exchange, leg_results>>


(***************************************************************************)
(* PaperTradingEngine.  Each method is an operator from the engine state   *)
(* st = [balance, initial_balance, positions, orders, trade_history] and   *)
(* the arguments to [st: the state after, ret: the value returned,         *)
(* log: the logger lines emitted].                                         *)
(***************************************************************************)
Engine == [balance |-> balance, initial_balance |-> initial_balance,
           positions |-> positions, orders |-> orders,
           trade_history |-> trade_history]

NoPositions == [s \in {} |-> None]

\* the engine after __init__(initial_balance)
NewEngine(initial) ==
    [balance |-> initial, initial_balance |-> initial,
     positions |-> NoPositions, orders |-> <<>>, trade_history |-> <<>>]

\* dict without key k
Without(f, k) == [x \in DOMAIN f \ {k} |-> f[x]]
\* dict with f[k] = v
With(f, k, v) == [x \in DOMAIN f \cup {k} |-> IF x = k THEN v ELSE f[x]]

\* a plain mean of the two prices instead of the size-weighted one
AvgEntryPrice_Mean(existing, size, price) ==
    RDiv(RAdd(existing.entryPrice, price), R(2))

\* place_order, buy on an existing position: the averaged entry price
AvgEntryPrice(existing, size, price) ==
    RDiv(RAdd(RMul(existing.entryPrice, existing.size), RMul(price, size)),
         RAdd(existing.size, size))

\* the replacing position dict built like a new one, without the stops
MergedPosition_DropsStops(existing, symbol, size, price) ==
    [symbol |-> symbol, side |-> "long",
     size |-> RAdd(existing.size, size),
     entryPrice |-> AvgEntryPrice(existing, size, price),
     currentPrice |-> price, unrealizedPnl |-> RZero,
     stopLoss |-> None, takeProfit |-> None]

\* place_order, buy on an existing position: the replacing position dict
MergedPosition(existing, symbol, size, price) ==
    [symbol |-> symbol, side |-> "long",
     size |-> RAdd(existing.size, size),
     entryPrice |-> AvgEntryPrice(existing, size, price),
     currentPrice |-> price, unrealizedPnl |-> RZero,
     stopLoss |-> existing.stopLoss, takeProfit |-> existing.takeProfit]

\* place_order, buy on a symbol without position: the new position dict
NewPosition(symbol, size, price) ==
    [symbol |-> symbol, side |-> "long", size |-> size,
     entryPrice |-> price, currentPrice |-> price, unrealizedPnl |-> RZero,
     stopLoss |-> None, takeProfit |-> None]

\* the price difference alone, the position size forgotten
ClosePnl_PerUnit(pos, price) == RSub(price, pos.entryPrice)

\* place_order, sell: the realized PnL of the position sold
ClosePnl(pos, price) == RMul(RSub(price, pos.entryPrice), pos.size)

\* place_order, sell: the trade_history record
TradeRecord(pos, symbol, price) ==
    [symbol |-> symbol, side |-> pos.side, entryPrice |-> pos.entryPrice,
     exitPrice |-> price, size |-> pos.size, pnl |-> ClosePnl(pos, price)]

\* a buy that takes the order value off the balance before checking it
PlaceBuy_DeductsFirst(st, symbol, size, price, order_type) ==
    LET order_value == RMul(size, price)
        deducted == [st EXCEPT !.balance = RSub(st.balance, order_value)]
        order == [id |-> Len(st.orders) + 1, symbol |-> symbol, side |-> "buy",
                  size |-> size, price |-> price, type |-> order_type,
                  status |-> "filled"]
    IN  IF RGt(order_value, st.balance)
        THEN [st |-> deducted,
              ret |-> [status |-> "rejected", reason |-> "Insufficient balance",
                       balance |-> st.balance, required |-> order_value],
              log |-> <<>>]
        ELSE [st |-> [deducted EXCEPT
                       !.positions = With(st.positions, symbol,
                           IF symbol \in DOMAIN st.positions
                           THEN MergedPosition(st.positions[symbol], symbol, size, price)
                           ELSE NewPosition(symbol, size, price)),
                       !.orders = Append(st.orders, order)],
              ret |-> order,
              log |-> <<"Paper order filled">>]

\* place_order, side = 'buy'
PlaceBuy(st, symbol, size, price, order_type) ==
    LET order_value == RMul(size, price)
        deducted == [st EXCEPT !.balance = RSub(st.balance, order_value)]
        order == [id |-> Len(st.orders) + 1, symbol |-> symbol, side |-> "buy",
                  size |-> size, price |-> price, type |-> order_type,
                  status |-> "filled"]
    IN  IF RGt(order_value, st.balance)
        THEN [st |-> st,
              ret |-> [status |-> "rejected", reason |-> "Insufficient balance",
                       balance |-> st.balance, required |-> order_value],
              log |-> <<>>]
        ELSE IF symbol \in DOMAIN st.positions
                /\ RAdd(st.positions[symbol].size, size) = RZero
        THEN \* ZeroDivisionError in avg_price, caught by the except clause
             [st |-> deducted,
              ret |-> [status |-> "error", reason |-> "float division by zero"],
              log |-> <<"Paper order error">>]
        ELSE [st |-> [deducted EXCEPT
                       !.positions = With(st.positions, symbol,
                           IF symbol \in DOMAIN st.positions
                           THEN MergedPosition(st.positions[symbol], symbol, size, price)
                           ELSE NewPosition(symbol, size, price)),
                       !.orders = Append(st.orders, order)],
              ret |-> order,
              log |-> <<"Paper order filled">>]

\* place_order 'sell' that closes the position without recording the trade
PlaceSell_NoTrade(st, symbol, size, price, order_type) ==
    IF symbol \notin DOMAIN st.positions
    THEN [st |-> st,
          ret |-> [status |-> "rejected", reason |-> "No position to close"],
          log |-> <<>>]
    ELSE LET pos == st.positions[symbol]
             pnl == ClosePnl(pos, price)
             order == [id |-> Len(st.orders) + 1, symbol |-> symbol,
                       side |-> "sell", size |-> size, price |-> price,
                       type |-> order_type, status |-> "filled", pnl |-> pnl]
         IN  [st |-> [st EXCEPT
                       !.balance = RAdd(st.balance,
                                        RAdd(RMul(pos.entryPrice, pos.size), pnl)),
                       !.positions = Without(st.positions, symbol),
                       !.orders = Append(st.orders, order)],
              ret |-> order,
              log |-> <<"Paper position closed">>]

\* place_order 'sell' that books the close but leaves the position in place
PlaceSell_KeepsPosition(st, symbol, size, price, order_type) ==
    IF symbol \notin DOMAIN st.positions
    THEN [st |-> st,
          ret |-> [status |-> "rejected", reason |-> "No position to close"],
          log |-> <<>>]
    ELSE LET pos == st.positions[symbol]
             pnl == ClosePnl(pos, price)
             order == [id |-> Len(st.orders) + 1, symbol |-> symbol,
                       side |-> "sell", size |-> size, price |-> price,
                       type |-> order_type, status |-> "filled", pnl |-> pnl]
         IN  [st |-> [st EXCEPT
                       !.balance = RAdd(st.balance,
                                        RAdd(RMul(pos.entryPrice, pos.size), pnl)),
                       !.trade_history = Append(st.trade_history,
                                                TradeRecord(pos, symbol, price)),
                       !.orders = Append(st.orders, order)],
              ret |-> order,
              log |-> <<"Paper position closed">>]

\* place_order, side = 'sell'
PlaceSell(st, symbol, size, price, order_type) ==
    IF symbol \notin DOMAIN st.positions
    THEN [st |-> st,
          ret |-> [status |-> "rejected", reason |-> "No position to close"],
          log |-> <<>>]
    ELSE LET pos == st.positions[symbol]
             pnl == ClosePnl(pos, price)
             order == [id |-> Len(st.orders) + 1, symbol |-> symbol,
                       side |-> "sell", size |-> size, price |-> price,
                       type |-> order_type, status |-> "filled", pnl |-> pnl]
         IN  [st |-> [st EXCEPT
                       !.balance = RAdd(st.balance,
                                        RAdd(RMul(pos.entryPrice, pos.size), pnl)),
                       !.trade_history = Append(st.trade_history,
                                                TradeRecord(pos, symbol, price)),
                       !.positions = Without(st.positions, symbol),
                       !.orders = Append(st.orders, order)],
              ret |-> order,
              log |-> <<"Paper position closed">>]

\* PaperTradingEngine.place_order
PlaceOrder(st, symbol, side, size, price, order_type) ==
    IF side = "buy" THEN PlaceBuy(st, symbol, size, price, order_type)
    ELSE IF side = "sell" THEN PlaceSell(st, symbol, size, price, order_type)
    ELSE [st |-> st, ret |-> None, log |-> <<>>]

\* PaperTradingEngine.close_position
ClosePosition(st, symbol, price, reason) ==
    IF symbol \notin DOMAIN st.positions
    THEN [st |-> st,
          ret |-> [success |-> FALSE, error |-> "No position found"],
          log |-> <<>>]
    ELSE LET r == PlaceOrder(st, symbol, "sell", st.positions[symbol].size,
                             price, "market")
         IN  [st |-> r.st,
              ret |-> IF "status" \in DOMAIN r.ret /\ r.ret.status = "filled"
                      THEN [success |-> TRUE,
                            pnl |-> IF "pnl" \in DOMAIN r.ret THEN r.ret.pnl ELSE RZero,
                            reason |-> reason]
                      ELSE [success |-> FALSE, error |-> "Failed to close position"],
              log |-> r.log]

\* the short formula applied to the (long) paper position
UnrealizedPnl_Inverted(pos, current_price) ==
    RMul(RSub(pos.entryPrice, current_price), pos.size)

\* update_position_price: the unrealized PnL it stores
UnrealizedPnl(pos, current_price) ==
    RMul(RSub(current_price, pos.entryPrice), pos.size)

\* update_position_price: `if position.get('stopLoss'): if current_price <= ...`
StopLossHit(pos, current_price) ==
    Truthy(pos.stopLoss) /\ RLe(current_price, pos.stopLoss)

\* update_position_price: `if position.get('takeProfit'): if current_price >= ...`
TakeProfitHit(pos, current_price) ==
    Truthy(pos.takeProfit) /\ RGe(current_price, pos.takeProfit)

\* PaperTradingEngine.update_position_price
UpdatePositionPrice(st, symbol, current_price) ==
    IF symbol \notin DOMAIN st.positions
    THEN [st |-> st, ret |-> None, log |-> <<>>]
    ELSE LET old == st.positions[symbol]
             \* the dict `position`, mutated in place and read by both checks
             pos == [old EXCEPT !.currentPrice = current_price,
                                !.unrealizedPnl = UnrealizedPnl(old, current_price)]
             marked == [st EXCEPT !.positions = With(st.positions, symbol, pos)]
             sl == StopLossHit(pos, current_price)
             tp == TakeProfitHit(pos, current_price)
             r1 == IF sl THEN ClosePosition(marked, symbol, current_price, "stop_loss")
                   ELSE [st |-> marked, ret |-> None, log |-> <<>>]
             r2 == IF tp THEN ClosePosition(r1.st, symbol, current_price, "take_profit")
                   ELSE [st |-> r1.st, ret |-> None, log |-> <<>>]
         IN  [st |-> r2.st, ret |-> None,
              log |-> (IF sl THEN <<"Stop loss triggered">> ELSE <<>>) \o r1.log
                      \o (IF tp THEN <<"Take profit triggered">> ELSE <<>>) \o r2.log]

\* PaperTradingEngine.set_stop_loss
SetStopLoss(st, symbol, stop_loss) ==
    [st |-> IF symbol \in DOMAIN st.positions
            THEN [st EXCEPT !.positions[symbol].stopLoss = stop_loss]
            ELSE st,
     ret |-> None, log |-> <<>>]

\* PaperTradingEngine.set_take_profit
SetTakeProfit(st, symbol, take_profit) ==
    [st |-> IF symbol \in DOMAIN st.positions
            THEN [st EXCEPT !.positions[symbol].takeProfit = take_profit]
            ELSE st,
     ret |-> None, log |-> <<>>]

\* sum(pos['unrealizedPnl'] for pos in self.positions.values())
RECURSIVE SumUnrealized(_, _)
SumUnrealized(ps, keys) ==
    IF keys = {} THEN RZero
    ELSE LET k == CHOOSE x \in keys : TRUE
         IN  RAdd(ps[k].unrealizedPnl, SumUnrealized(ps, keys \ {k}))

\* PaperTradingEngine.get_total_pnl
GetTotalPnl(st) ==
    LET unrealized == SumUnrealized(st.positions, DOMAIN st.positions)
        realized == RSub(st.balance, st.initial_balance)
    IN  [st |-> st, ret |-> RAdd(realized, unrealized), log |-> <<>>]

\* PaperTradingEngine.reset
Reset(st, initial) ==
    [st |-> NewEngine(initial), ret |-> None,
     log |-> <<"Paper trading engine reset">>]

(***************************************************************************)
(* BacktestingService.  The state is bt = [balance, position, trades];     *)
(* each method is an operator to [st, ret, log] as above.                  *)
(***************************************************************************)
Backtest == [balance |-> bt_balance, position |-> position, trades |-> trades]

\* run_backtest's default settings
DefaultSettings ==
    [leverage |-> R(1), takeProfitPercent |-> R(5), stopLossPercent |-> R(2),
     maxPositionSize |-> Rat(1, 2)]
SettingsSet == {DefaultSettings}

\* _update_position / _close_position: PnL of the position at a price
BtPnl(pos, price) ==
    IF pos.side = "long"
    THEN RMul(RSub(price, pos.entry_price), pos.size)
    ELSE RMul(RSub(pos.entry_price, price), pos.size)

\* BacktestingService._update_position
BtUpdatePosition(st, current_price) ==
    IF st.position = None
    THEN [st |-> st, ret |-> None, log |-> <<>>]
    ELSE [st |-> [st EXCEPT !.position.current_price = current_price,
                            !.position.unrealized_pnl = BtPnl(st.position, current_price)],
          ret |-> None, log |-> <<>>]

\* BacktestingService._should_close_position
BtShouldClosePosition(st, current_price, settings) ==
    IF st.position = None THEN FALSE
    ELSE LET entry == st.position.entry_price
             change == IF st.position.side = "long"
                       THEN RMul(RDiv(RSub(current_price, entry), entry), R(100))
                       ELSE RMul(RDiv(RSub(entry, current_price), entry), R(100))
         IN  \/ RGe(change, settings.takeProfitPercent)
             \/ RLe(change, RSub(RZero, settings.stopLossPercent))

\* _open_position without the guard on an existing position: the open
\* position is overwritten
BtOpenPosition_Overwrites(st, timestamp, symbol, action, price, settings) ==
    LET max_position_value == RMul(st.balance, settings.maxPositionSize)
        size == RDiv(max_position_value, price)
        side == IF action = "open_long" THEN "long" ELSE "short"
    IN  [st |-> [st EXCEPT
                  !.balance = RSub(st.balance, RMul(size, price)),
                  !.position = [symbol |-> symbol, side |-> side,
                                entry_price |-> price, current_price |-> price,
                                size |-> size, unrealized_pnl |-> RZero,
                                opened_at |-> timestamp]],
         ret |-> None, log |-> <<"Opened position">>]

\* BacktestingService._open_position
BtOpenPosition(st, timestamp, symbol, action, price, settings) ==
    IF st.position # None
    THEN [st |-> st, ret |-> None,
          log |-> <<"Attempted to open position while one exists">>]
    ELSE IF price = RZero
    THEN \* ZeroDivisionError in size, raised before any assignment
         [st |-> st, ret |-> [raised |-> "ZeroDivisionError"], log |-> <<>>]
    ELSE LET max_position_value == RMul(st.balance, settings.maxPositionSize)
             size == RDiv(max_position_value, price)
             position_value == RMul(size, price)
             side == IF action = "open_long" THEN "long" ELSE "short"
         IN  [st |-> [st EXCEPT
                       !.balance = RSub(st.balance, position_value),
                       !.position = [symbol |-> symbol, side |-> side,
                                     entry_price |-> price, current_price |-> price,
                                     size |-> size, unrealized_pnl |-> RZero,
                                     opened_at |-> timestamp]],
              ret |-> None, log |-> <<"Opened position">>]

\* BacktestingService._close_position
BtClosePosition(st, timestamp, price, reason) ==
    IF st.position = None
    THEN [st |-> st, ret |-> None, log |-> <<>>]
    ELSE LET pos == st.position
             new_balance == RAdd(st.balance, RMul(pos.size, price))
             trade == [timestamp |-> timestamp, symbol |-> pos.symbol,
                       action |-> "close", price |-> price, size |-> pos.size,
                       confidence |-> RZero, reasoning |-> reason,
                       pnl |-> BtPnl(pos, price), balance_after |-> new_balance]
         IN  [st |-> [st EXCEPT !.balance = new_balance,
                                !.trades = Append(st.trades, trade),
                                !.position = None],
              ret |-> None, log |-> <<"Closed position">>]

\* a reset that leaves the trade list of the earlier run in place
BtResetState_KeepsTrades(st) ==
    [st |-> [balance |-> R(InitialBalance), position |-> None, trades |-> st.trades],
     ret |-> None, log |-> <<"Starting backtest">>]

\* BacktestingService.run_backtest, "Reset state": a new run starts from the
\* initial balance, no position and an empty trade list
BtResetState(st) ==
    [st |-> [balance |-> R(InitialBalance), position |-> None, trades |-> <<>>],
     ret |-> None, log |-> <<"Starting backtest">>]

\* BacktestingService.run_backtest after the loop over the series, "Close
\* any remaining position": price_index intervals were processed and
\* final_price is price_data[-1]['price']; the call returns the result of
\* _calculate_results, of which the trades are kept
BtFinish(st, end_date, final_price, price_index) ==
    LET closed == IF st.position # None /\ price_index > 0
                  THEN BtClosePosition(st, end_date, final_price, "Backtest ended")
                  ELSE [st |-> st, ret |-> None, log |-> <<>>]
    IN  [st |-> closed.st,
         ret |-> [trades |-> closed.st.trades, final_balance |-> closed.st.balance],
         log |-> closed.log]

\* BacktestingService._get_position_value
BtGetPositionValue(st, current_price) ==
    IF st.position = None THEN RZero ELSE RMul(st.position.size, current_price)

\* the curve fields of a service as constructed, and no call of
\* run_backtest made yet; reused records that the call under way found the
\* trades of an earlier run in the service
NoRun ==
    [pc |-> "idle", symbol |-> "BTC", price_data |-> <<>>, decisions |-> <<>>,
     ai_service |-> FALSE, settings |-> DefaultSettings, end_date |-> 0,
     interval_minutes |-> 0, current_time |-> 0, price_index |-> 0,
     equity_curve |-> <<>>, peak_balance |-> R(InitialBalance),
     max_drawdown |-> RZero, reused |-> FALSE]

\* run_backtest up to the loop: the series is required, then the state of
\* the service is reset and the loop starts at start_date (minute 0).
\* args = [symbol, end_date, interval_minutes, settings, ai_service,
\* price_data, decisions]
BtStartRun(st, rn, args) ==
    IF args.price_data = <<>>
    THEN [st |-> st, run |-> rn,
          ret |-> [raised |-> "ValueError"], log |-> <<"Starting backtest">>]
    ELSE [st |-> BtResetState(st).st,
          run |-> [pc |-> "loop", symbol |-> args.symbol,
                   price_data |-> args.price_data, decisions |-> args.decisions,
                   ai_service |-> args.ai_service, settings |-> args.settings,
                   end_date |-> args.end_date,
                   interval_minutes |-> args.interval_minutes,
                   current_time |-> 0, price_index |-> 0,
                   equity_curve |-> <<>>, peak_balance |-> R(InitialBalance),
                   max_drawdown |-> RZero, reused |-> st.trades # <<>>],
          ret |-> None, log |-> <<"Starting backtest">>]

\* start_date, as the minute of its day: run_backtest counts its minutes
\* from there
StartMinute == 59

\* datetime.isoformat of the time t minutes after start_date: the fields
\* of the string that differ within a run, hour and minute
IsoFormat(t) == <<(StartMinute + t) \div 60, (StartMinute + t) % 60>>

\* a loop test that forgets end_date
BtTickDue_PastEnd(rn) == rn.price_index < Len(rn.price_data)

\* `while current_time <= end_date and price_index < len(price_data)`
BtTickDue(rn) ==
    rn.current_time <= rn.end_date /\ rn.price_index < Len(rn.price_data)

\* a tick that asks for a decision while the position is open
BtAsks_Always(st, rn) == rn.ai_service

\* `if not self.position and ai_service`
BtAsks(st, rn) == st.position = None /\ rn.ai_service

\* one pass of the loop of run_backtest; log is what the pass did, in order
BtTick(st, rn) ==
    LET current_price == rn.price_data[rn.price_index + 1]
        held == st.position # None
        marked == IF held THEN BtUpdatePosition(st, current_price).st ELSE st
        triggered == held /\ BtShouldClosePosition(marked, current_price, rn.settings)
        closed == IF triggered
                  THEN BtClosePosition(marked, rn.current_time, current_price,
                                       "TP/SL triggered").st
                  ELSE marked
        asks == BtAsks(closed, rn)
        decision == IF asks THEN rn.decisions[rn.price_index + 1] ELSE None
        opens == decision # None /\ decision.action \in {"open_long", "open_short"}
        opened == IF opens
                  THEN BtOpenPosition(closed, rn.current_time, rn.symbol,
                                      decision.action, current_price, rn.settings).st
                  ELSE closed
        value == BtGetPositionValue(opened, current_price)
        point == [timestamp |-> IsoFormat(rn.current_time),
                  balance |-> opened.balance,
                  position_value |-> value]
        total_equity == RAdd(opened.balance, value)
        peak == IF RGt(total_equity, rn.peak_balance)
                THEN total_equity ELSE rn.peak_balance
        drawdown_percent ==
            IF RGt(peak, RZero)
            THEN RMul(RDiv(RSub(peak, total_equity), peak), R(100))
            ELSE RZero
    IN  [st |-> opened,
         run |-> [rn EXCEPT
                    !.equity_curve = Append(rn.equity_curve, point),
                    !.peak_balance = peak,
                    !.max_drawdown = IF RGt(drawdown_percent, rn.max_drawdown)
                                     THEN drawdown_percent ELSE rn.max_drawdown,
                    !.current_time = rn.current_time + rn.interval_minutes,
                    !.price_index = rn.price_index + 1],
         ret |-> None,
         log |-> (IF held THEN <<"mark">> ELSE <<>>)
                 \o (IF triggered THEN <<"close">> ELSE <<>>)
                 \o (IF asks THEN <<"decide">> ELSE <<>>)
                 \o (IF opens THEN <<"open">> ELSE <<>>)
                 \o <<"equity">>]

\* _calculate_results: the fields of BacktestResult that are kept (the
\* win / loss statistics and the Sharpe ratio are functions of the trades)
BtCalculateResults(st, rn) ==
    [initial_balance |-> R(InitialBalance), final_balance |-> st.balance,
     total_trades |-> Len(st.trades),
     total_pnl |-> RSub(st.balance, R(InitialBalance)),
     max_drawdown_percent |-> rn.max_drawdown,
     trades |-> st.trades, equity_curve |-> rn.equity_curve]

\* run_backtest after the loop: the remaining position is closed and the
\* result returned; the arguments and locals of the call are gone, the
\* fields of the service stay
BtEndRun(st, rn) ==
    LET closed == BtFinish(st, rn.end_date, Last(rn.price_data), rn.price_index)
    IN  [st |-> closed.st,
         run |-> [NoRun EXCEPT !.pc = "returned",
                               !.equity_curve = rn.equity_curve,
                               !.peak_balance = rn.peak_balance,
                               !.max_drawdown = rn.max_drawdown,
                               !.reused = rn.reused],
         ret |-> BtCalculateResults(closed.st, rn), log |-> closed.log]

\* run_backtest from the loop test on, to its end: the value returned
RECURSIVE BtRunOn(_, _)
BtRunOn(st, rn) ==
    IF BtTickDue(rn)
    THEN BtRunOn(BtTick(st, rn).st, BtTick(st, rn).run)
    ELSE BtEndRun(st, rn).ret

(***************************************************************************)
(* HyperliquidService.  A leg (place_order, place_stop_loss,               *)
(* place_take_profit) is a coroutine: lv is where it stands and what it    *)
(* has done so far (events), ex the payloads the exchange has received.    *)
(* Each operator runs the leg from one await to the next and gives         *)
(* [live, exchange, ret, log], ret being None while the leg is suspended.  *)
(***************************************************************************)
NoLive == [pc |-> "idle", leg |-> "order", leverage |-> FALSE, events |-> <<>>]

Ev(step, ok) == [step |-> step, ok |-> ok]

\* an except clause that lets the exception out
LiveCaught_Raises(e) == [raised |-> e]

\* `except Exception as e: return {"success": False, "error": str(e)}`
LiveCaught(e) == [success |-> FALSE, error |-> e]

\* the leg returns value
LiveReturn(lv, ex, events, value, lines) ==
    [live |-> [lv EXCEPT !.pc = "returned", !.events = events],
     exchange |-> ex, ret |-> value, log |-> lines]

\* a leg that posts its payload whether or not it was signed
LiveSignOrder_Unsigned(lv, ex, events, sign_ok, lines) ==
    [live |-> [lv EXCEPT !.pc = "post",
                         !.events = Append(events, Ev("sign", sign_ok))],
     exchange |-> ex, ret |-> None, log |-> lines]

\* the order action is built and signed by _sign_l1_action, the payload
\* built and posted; a signer that raises ends the leg
LiveSignOrder(lv, ex, events, sign_ok, lines) ==
    IF sign_ok
    THEN [live |-> [lv EXCEPT !.pc = "post",
                              !.events = Append(events, Ev("sign", TRUE))],
          exchange |-> ex, ret |-> None, log |-> lines]
    ELSE LiveReturn(lv, ex, Append(events, Ev("sign", FALSE)),
                    LiveCaught("sign"), lines)

\* the leg is called: Account.from_key, then the await of get_asset_index
LiveBegin(ex, leg, leverage, key_ok) ==
    LET lv == [pc |-> "index", leg |-> leg, leverage |-> leverage,
               events |-> <<Ev("wallet", key_ok)>>]
    IN  IF key_ok
        THEN [live |-> lv, exchange |-> ex, ret |-> None, log |-> <<>>]
        ELSE LiveReturn(lv, ex, lv.events, LiveCaught("from_key"), <<>>)

\* get_asset_index has answered: the index, or ValueError for a symbol not
\* in the universe or a failed request; place_order goes on to
\* _set_leverage `if leverage`, the legs otherwise to the signer
LiveIndexDone(lv, ex, answer, sign_ok) ==
    IF answer # "found"
    THEN LiveReturn(lv, ex, Append(lv.events, Ev("index", FALSE)),
                    LiveCaught("Failed to get asset index"), <<>>)
    ELSE IF lv.leg = "order" /\ lv.leverage
    THEN [live |-> [lv EXCEPT !.pc = "leverage",
                              !.events = Append(lv.events, Ev("index", TRUE))],
          exchange |-> ex, ret |-> None, log |-> <<>>]
    ELSE LiveSignOrder(lv, ex, Append(lv.events, Ev("index", TRUE)), sign_ok, <<>>)

\* the request reached the exchange: it answered, or its answer was lost
Arrived(outcome) == outcome \in {"ok", "timeout"}

\* _set_leverage has ended: its own signing or POST may have failed, which
\* it prints and swallows; place_order goes on to the signer
LiveLeverageDone(lv, ex, outcome, sign_ok) ==
    LET ex2 == IF Arrived(outcome)
               THEN Append(ex, [type |-> "updateLeverage", leg |-> lv.leg])
               ELSE ex
        lines == IF outcome = "ok" THEN <<>>
                 ELSE <<"Warning: Failed to set leverage">>
    IN  LiveSignOrder(lv, ex2, Append(lv.events, Ev("leverage", outcome = "ok")),
                      sign_ok, lines)

\* what the leg makes of the exchange's JSON answer: place_order reads
\* response.data.statuses[0].resting.oid out of it, which raises on an
\* empty statuses list and on an error answer whose response is a string
LiveResult(leg, shape) ==
    IF leg # "order" THEN [success |-> TRUE, result |-> shape]
    ELSE IF shape = "empty" THEN LiveCaught("IndexError")
    ELSE IF shape = "err" THEN LiveCaught("AttributeError")
    ELSE [success |-> TRUE, result |-> shape,
          orderId |-> IF shape = "resting" THEN [oid |-> 1] ELSE None]

\* the POST of the order payload has ended
LivePostDone(lv, ex, outcome, shape) ==
    LET ex2 == IF Arrived(outcome)
               THEN Append(ex, [type |-> "order", leg |-> lv.leg])
               ELSE ex
    IN  LiveReturn(lv, ex2, Append(lv.events, Ev("submit", outcome = "ok")),
                   IF outcome = "ok" THEN LiveResult(lv.leg, shape)
                   ELSE LiveCaught(outcome),
                   <<>>)

(***************************************************************************)
(* MarketDataService.  fetch_current_price is an operator from the cache,  *)
(* the clock, the arguments, what each source would answer and how long    *)
(* the round to the sources takes, to [cache, now, ret, log, fetched].     *)
(***************************************************************************)
CACHE_DURATION == 5

NoPrices == [k \in {} |-> None]

\* the key fetch_current_price files a price under
CacheKey(symbol, is_testnet) == symbol

\* self.price_cache.get(symbol)
CacheGet(cache, key) == IF key \in DOMAIN cache THEN cache[key] ELSE None

\* an entry that never counts as fresh
IsFresh_Never(cached, t) == FALSE

\* the cache check: an entry exists and is younger than CACHE_DURATION
IsFresh(cached, t) ==
    cached # None /\ t - cached.timestamp < CACHE_DURATION

\* the sources with Binance asked before Hyperliquid
SourceOrder_BinanceFirst == <<"binance", "hyperliquid", "kucoin">>

\* the sources in the order fetch_current_price asks them
SourceOrder == <<"hyperliquid", "binance", "kucoin">>

\* what the answers of the sources may be: nothing, 0.0, or a price
SourceAnswers == {None, RZero} \cup FeedPrices
AnswerSets == [{"hyperliquid", "binance", "kucoin"} -> SourceAnswers]

\* one request to a source; only Hyperliquid is asked on a network
Request(source, symbol, is_testnet, answers) ==
    IF source = "hyperliquid"
    THEN [source |-> source, symbol |-> symbol, is_testnet |-> is_testnet,
          result |-> answers[source]]
    ELSE [source |-> source, symbol |-> symbol, result |-> answers[source]]

\* the requests made from the i-th source on: each source is asked only
\* when the ones before it gave no price, and none after the first price
RECURSIVE Consult(_, _, _, _)
Consult(i, symbol, is_testnet, answers) ==
    IF i > Len(SourceOrder) THEN <<>>
    ELSE LET req == Request(SourceOrder[i], symbol, is_testnet, answers)
         IN  IF Truthy(req.result) THEN <<req>>
             ELSE <<req>> \o Consult(i + 1, symbol, is_testnet, answers)

\* all sources failed and nothing is cached: None is returned, not raised
AllSourcesFailed_ReturnsNone(cached, symbol) ==
    IF cached # None
    THEN [ret |-> cached.price, log |-> <<"Using stale cached price">>]
    ELSE [ret |-> None, log |-> <<>>]

\* all sources failed and the failure is raised even when an entry exists
AllSourcesFailed_Raises(cached, symbol) ==
    [ret |-> [raised |-> "Failed to fetch price from all sources"], log |-> <<>>]

\* fetch_current_price once every source has failed: the stale entry if
\* there is one, else the exception
AllSourcesFailed(cached, symbol) ==
    IF cached # None
    THEN [ret |-> cached.price, log |-> <<"Using stale cached price">>]
    ELSE [ret |-> [raised |-> "Failed to fetch price from all sources"],
          log |-> <<>>]

\* fetch_current_price that stamps the stale entry it falls back on
FetchCurrentPrice_RefreshesStale(cache, t, symbol, is_testnet, answers, delay) ==
    LET key == CacheKey(symbol, is_testnet)
        cached == CacheGet(cache, key)
        requests == Consult(1, symbol, is_testnet, answers)
        price == Last(requests).result
        failed == AllSourcesFailed(cached, symbol)
    IN  IF IsFresh(cached, t)
        THEN [cache |-> cache, now |-> t, ret |-> cached.price, log |-> <<>>,
              fetched |-> <<>>]
        ELSE IF Truthy(price)
        THEN [cache |-> With(cache, key, [price |-> price, timestamp |-> t + delay]),
              now |-> t + delay, ret |-> price, log |-> <<>>,
              fetched |-> requests]
        ELSE [cache |-> IF cached # None
                        THEN With(cache, key, [price |-> cached.price,
                                               timestamp |-> t + delay])
                        ELSE cache,
              now |-> t + delay, ret |-> failed.ret,
              log |-> failed.log, fetched |-> requests]

\* MarketDataService.fetch_current_price, called at time t
FetchCurrentPrice(cache, t, symbol, is_testnet, answers, delay) ==
    LET key == CacheKey(symbol, is_testnet)
        cached == CacheGet(cache, key)
        requests == Consult(1, symbol, is_testnet, answers)
        price == Last(requests).result
        failed == AllSourcesFailed(cached, symbol)
    IN  IF IsFresh(cached, t)
        THEN [cache |-> cache, now |-> t, ret |-> cached.price, log |-> <<>>,
              fetched |-> <<>>]
        ELSE IF Truthy(price)
        THEN [cache |-> With(cache, key, [price |-> price, timestamp |-> t + delay]),
              now |-> t + delay, ret |-> price, log |-> <<>>,
              fetched |-> requests]
        ELSE [cache |-> cache, now |-> t + delay, ret |-> failed.ret,
              log |-> failed.log, fetched |-> requests]

(***************************************************************************)
(* PriceStreamService.  The service state is st = [is_running, symbols,    *)
(* price_cache, subscribers, loops]; loops[i] is the i-th start()          *)
(* coroutine: the await it is suspended at (pc) and its local variables.   *)
(* A step runs one coroutine from the await it resumes at to the next      *)
(* one: asyncio.gather, a subscriber callback, asyncio.sleep.  Each step   *)
(* yields [st, log], log being the events of the step in order.            *)
(* self.is_testnet only selects the URL _fetch_price posts to, whose       *)
(* answers are inputs here, and is left out of the state.                  *)
(***************************************************************************)
\* a start() coroutine that has not been called
NoLoop ==
    [pc |-> "unborn", asked |-> <<>>, round |-> <<>>, k |-> 0,
     snapshot |-> None, listed |-> <<>>, told |-> <<>>]

\* recording: the subscribed callbacks keep a record of their calls, which
\* the model holds in listed and told of the coroutine that delivers
Stream ==
    [is_running |-> is_running, symbols |-> symbols,
     price_cache |-> stream_cache, subscribers |-> subscribers, loops |-> loops,
     recording |-> context = "delivery"]

\* what _fetch_price may return: None, or the price
StreamAnswers(symbol) == {None} \cup StreamPrices[symbol]

\* the results asyncio.gather may return for the fetches of `asked`
ResultsOf(asked) ==
    {results \in [1..Len(asked) -> {None} \cup UNION {StreamPrices[s] : s \in DOMAIN StreamPrices}] :
        \A j \in 1..Len(asked) : results[j] \in StreamAnswers(asked[j])}

\* zip(self.symbols, results)
Zip(syms, results) ==
    [j \in 1..(IF Len(syms) < Len(results) THEN Len(syms) ELSE Len(results)) |->
        [symbol |-> syms[j], result |-> results[j]]]

\* PriceSnapshot(symbol=symbol, price=result, timestamp=datetime.now())
PriceSnapshot(symbol, price, t) ==
    [symbol |-> symbol, price |-> price, timestamp |-> t, source |-> "hyperliquid"]

\* every snapshot taken as a change
PriceChanged_Always(old_price, snapshot) == TRUE

\* _poll_prices: the test that decides on publishing
PriceChanged(old_price, snapshot) ==
    old_price = None \/ old_price.price # snapshot.price

\* list.remove(callback): the list without the first occurrence
RECURSIVE Remove(_, _)
Remove(list, callback) ==
    IF list = <<>> THEN <<>>
    ELSE IF Head(list) = callback THEN Tail(list)
    ELSE <<Head(list)>> \o Remove(Tail(list), callback)

\* a raising callback ends the delivery of the snapshot
AfterCallback_Aborts(outcome, k, n) == IF outcome = "raises" THEN n ELSE k

\* _publish_update: the iterator position after a callback has returned or
\* raised (the exception is caught inside the for loop)
AfterCallback(outcome, k, n) == k

\* a failed fetch taken for a price
FetchFailed_Never(result) == FALSE

\* _poll_prices: the result of a fetch that gave no price (_fetch_price
\* returns None on any error; an exception out of gather is skipped too)
FetchFailed(result) == result = None

RECURSIVE PollFrom(_, _, _, _, _)
RECURSIVE PublishFrom(_, _, _, _, _)

\* _publish_update from the k-th step of `for callback in self.subscribers`:
\* the next callback is called and awaited, or the loop over the
\* subscribers is over and _poll_prices goes on with the next symbol
PublishFrom(st, i, k, t, events) ==
    LET loop == st.loops[i]
    IN  IF k < Len(st.subscribers)
        THEN [st |-> [st EXCEPT !.loops[i].pc = "callback", !.loops[i].k = k + 1,
                                !.loops[i].told =
                                   IF st.recording
                                   THEN Append(loop.told, st.subscribers[k + 1])
                                   ELSE <<>>],
              log |-> Append(events,
                        [ev |-> "notified", loop |-> i,
                         subscriber |-> st.subscribers[k + 1],
                         symbol |-> loop.snapshot.symbol,
                         price |-> loop.snapshot.price])]
        ELSE PollFrom(st, i, loop.round, t, events)

\* _poll_prices, `for symbol, result in zip(self.symbols, results)` with
\* the pairs in `rest` still to come, up to the next await
PollFrom(st, i, rest, t, events) ==
    IF rest = <<>>
    THEN \* _poll_prices returns: await asyncio.sleep(self.poll_interval)
         [st |-> [st EXCEPT !.loops[i] = [NoLoop EXCEPT !.pc = "sleep"]],
          log |-> Append(events, [ev |-> "round_over", loop |-> i])]
    ELSE LET symbol == Head(rest).symbol
             result == Head(rest).result
             snapshot == PriceSnapshot(symbol, result, t)
             old_price == CacheGet(st.price_cache, symbol)
             cached == [st EXCEPT
                          !.price_cache = With(st.price_cache, symbol, snapshot),
                          !.loops[i].round = Tail(rest),
                          !.loops[i].snapshot = snapshot,
                          !.loops[i].listed =
                             IF st.recording THEN st.subscribers ELSE <<>>,
                          !.loops[i].told = <<>>]
         IN  IF FetchFailed(result)
             THEN PollFrom(st, i, Tail(rest), t,
                           Append(events, [ev |-> "skipped", loop |-> i,
                                           symbol |-> symbol]))
             ELSE IF PriceChanged(old_price, snapshot)
             THEN PublishFrom(cached, i, 0, t,
                              Append(events, [ev |-> "published", loop |-> i,
                                              symbol |-> symbol,
                                              price |-> result]))
             ELSE PollFrom(cached, i, Tail(rest), t,
                           Append(events, [ev |-> "unchanged", loop |-> i,
                                           symbol |-> symbol]))

\* start() whose loop goes on polling whatever is_running says
EnterLoop_Always(st, i) ==
    [st EXCEPT !.loops[i] = [NoLoop EXCEPT !.pc = "gather", !.asked = st.symbols]]

\* start(), `while self.is_running:`: into _poll_prices up to
\* `await asyncio.gather(*tasks)`, or out of the loop and start() returns
EnterLoop(st, i) ==
    IF st.is_running
    THEN [st EXCEPT !.loops[i] = [NoLoop EXCEPT !.pc = "gather",
                                                !.asked = st.symbols]]
    ELSE [st EXCEPT !.loops[i] = [NoLoop EXCEPT !.pc = "returned"]]

\* PriceStreamService.start, run as the i-th coroutine up to its first await
StreamStart(st, i, syms) ==
    [st |-> EnterLoop([st EXCEPT !.symbols = syms, !.is_running = TRUE], i),
     log |-> <<[ev |-> "starting", loop |-> i]>>]

\* asyncio.gather returns the results of the fetches to the i-th coroutine
GatherDone(st, i, results, t) ==
    PollFrom([st EXCEPT !.loops[i].asked = <<>>], i,
             Zip(st.symbols, results), t, <<>>)

\* the callback awaited by the i-th coroutine returns or raises
CallbackDone(st, i, outcome, t) ==
    PublishFrom(st, i,
                AfterCallback(outcome, st.loops[i].k, Len(st.subscribers)), t,
                IF outcome = "raises"
                THEN <<[ev |-> "callback_error", loop |-> i]>>
                ELSE <<>>)

\* start() that gives up when a round raised
RoundRaised_Returns(st, i) ==
    [st |-> [st EXCEPT !.loops[i] = [NoLoop EXCEPT !.pc = "returned"]],
     log |-> <<[ev |-> "round_error", loop |-> i], [ev |-> "returned", loop |-> i]>>]

\* start(), `except Exception`: an exception comes out of `await
\* self._poll_prices()`; it is logged and the coroutine sleeps
RoundRaised(st, i) ==
    [st |-> [st EXCEPT !.loops[i] = [NoLoop EXCEPT !.pc = "sleep"]],
     log |-> <<[ev |-> "round_error", loop |-> i]>>]

\* asyncio.sleep returns to the i-th coroutine
Wake(st, i) ==
    LET next == EnterLoop(st, i)
    IN  [st |-> next,
         log |-> IF next.loops[i].pc = "returned"
                 THEN <<[ev |-> "returned", loop |-> i]>> ELSE <<>>]

\* stop() that flips the flag
StreamStop_Toggles(st) ==
    [st |-> [st EXCEPT !.is_running = ~st.is_running],
     log |-> <<[ev |-> "stopped"]>>]

\* PriceStreamService.stop
StreamStop(st) ==
    [st |-> [st EXCEPT !.is_running = FALSE], log |-> <<[ev |-> "stopped"]>>]

\* PriceStreamService.subscribe
Subscribe(st, callback) ==
    [st |-> [st EXCEPT !.subscribers = Append(st.subscribers, callback)],
     log |-> <<[ev |-> "subscribed"]>>]

\* PriceStreamService.unsubscribe
Unsubscribe(st, callback) ==
    IF \E j \in 1..Len(st.subscribers) : st.subscribers[j] = callback
    THEN [st |-> [st EXCEPT !.subscribers = Remove(st.subscribers, callback)],
          log |-> <<[ev |-> "unsubscribed"]>>]
    ELSE [st |-> st, log |-> <<>>]

\* PriceStreamService.get_snapshot
GetSnapshot(st, symbol) == CacheGet(st.price_cache, symbol)

\* PriceStreamService.get_price
GetPrice(st, symbol) ==
    IF GetSnapshot(st, symbol) # None THEN GetSnapshot(st, symbol).price ELSE None

(***************************************************************************)
(* The state machine: one action per call on the engine of the context.    *)
(***************************************************************************)
\* the services as constructed
Constructed ==
    /\ balance = R(InitialBalance)
    /\ initial_balance = R(InitialBalance)
    /\ positions = NoPositions
    /\ orders = <<>>
    /\ trade_history = <<>>
    /\ position = None
    /\ bt_balance = R(InitialBalance)
    /\ trades = <<>>
    /\ call = [op |-> "__init__"]
    /\ ret = None
    /\ log = <<>>
    /\ price_cache = NoPrices
    /\ now = 0
    /\ fetched = <<>>
    /\ is_running = FALSE
    /\ symbols = <<>>
    /\ stream_cache = NoPrices
    /\ subscribers = <<>>
    /\ loops = [i \in 1..MaxLoops |-> NoLoop]
    /\ run = NoRun
    /\ live = NoLive
    /\ exchange = <<>>
    /\ leg_results = <<>>

Init == context \in {"paper", "backtest"} /\ Constructed

InitFeed == context = "feed" /\ Constructed

\* a Hyperliquid service on which legs are placed
InitLive == context = "live" /\ Constructed

\* a backtesting service on which run_backtest is called
InitRun == context = "run" /\ Constructed

\* a paper engine on which positions are built up
InitAdding == context = "adding" /\ Constructed

InitStream == context = "stream" /\ Constructed

\* a price stream whose subscribers record their calls
InitDelivery == context = "delivery" /\ Constructed

\* both singletons of the process: market_data_service and get_price_stream()
InitTiers == context = "tiers" /\ Constructed

\* the order log explored: one order more where only buys are made
OrderCap == IF context = "adding" THEN MaxOrders + 1 ELSE MaxOrders

\* the paper engine goes to r.st, the call returns r.ret
PaperStep(r, c) ==
    /\ context \in {"paper", "adding"}
    /\ Len(r.st.orders) <= OrderCap
    /\ balance' = r.st.balance
    /\ initial_balance' = r.st.initial_balance
    /\ positions' = r.st.positions
    /\ orders' = r.st.orders
    /\ trade_history' = r.st.trade_history
    /\ call' = c
    /\ ret' = r.ret
    /\ log' = r.log
    /\ UNCHANGED <<context, btVars, feedVars, streamVars, liveVars>>

\* the backtest engine goes to r.st, the call returns r.ret
BacktestStep(r, c) ==
    /\ context = "backtest"
    /\ Len(r.st.trades) <= MaxTrades
    /\ bt_balance' = r.st.balance
    /\ position' = r.st.position
    /\ trades' = r.st.trades
    /\ call' = c
    /\ ret' = r.ret
    /\ log' = r.log
    /\ UNCHANGED <<context, balance, initial_balance, positions, orders,
                   trade_history, feedVars, streamVars, run, liveVars>>

DoPlaceOrder(symbol, side, size, price) ==
    PaperStep(PlaceOrder(Engine, symbol, side, size, price, "market"),
              [op |-> "place_order", symbol |-> symbol, side |-> side,
               size |-> size, price |-> price])

DoClosePosition(symbol, price) ==
    PaperStep(ClosePosition(Engine, symbol, price, "manual"),
              [op |-> "close_position", symbol |-> symbol, price |-> price])

DoUpdatePositionPrice(symbol, price) ==
    PaperStep(UpdatePositionPrice(Engine, symbol, price),
              [op |-> "update_position_price", symbol |-> symbol,
               price |-> price])

DoSetStopLoss(symbol, price) ==
    PaperStep(SetStopLoss(Engine, symbol, price),
              [op |-> "set_stop_loss", symbol |-> symbol, price |-> price])

DoSetTakeProfit(symbol, price) ==
    PaperStep(SetTakeProfit(Engine, symbol, price),
              [op |-> "set_take_profit", symbol |-> symbol, price |-> price])

DoGetTotalPnl ==
    PaperStep(GetTotalPnl(Engine), [op |-> "get_total_pnl"])

DoReset ==
    PaperStep(Reset(Engine, R(InitialBalance)), [op |-> "reset"])

DoBtOpenPosition(timestamp, symbol, action, price, settings) ==
    BacktestStep(BtOpenPosition(Backtest, timestamp, symbol, action, price, settings),
                 [op |-> "_open_position", timestamp |-> timestamp,
                  symbol |-> symbol, action |-> action, price |-> price])

DoBtUpdatePosition(price) ==
    BacktestStep(BtUpdatePosition(Backtest, price),
                 [op |-> "_update_position", price |-> price])

DoBtClosePosition(timestamp, price, reason) ==
    BacktestStep(BtClosePosition(Backtest, timestamp, price, reason),
                 [op |-> "_close_position", timestamp |-> timestamp,
                  price |-> price, reason |-> reason])

DoBtResetState ==
    BacktestStep(BtResetState(Backtest), [op |-> "run_backtest"])

\* the end of a run: a position can only have been opened inside the loop,
\* so that at least one interval was processed when one is open
DoBtFinish(end_date, final_price, price_index) ==
    /\ position = None \/ price_index > 0
    /\ BacktestStep(BtFinish(Backtest, end_date, final_price, price_index),
                    [op |-> "run_backtest_end", final_price |-> final_price])

\* run_backtest goes to r.st and r.run
RunStep(r, c) ==
    /\ context = "run"
    /\ bt_balance' = r.st.balance
    /\ position' = r.st.position
    /\ trades' = r.st.trades
    /\ run' = r.run
    /\ call' = c
    /\ ret' = r.ret
    /\ log' = r.log
    /\ UNCHANGED <<context, paperVars, feedVars, streamVars, liveVars>>

\* run_backtest is called on a service that is not inside a run
DoRunBacktest(args) ==
    /\ run.pc # "loop"
    /\ RunStep(BtStartRun(Backtest, run, args),
               [op |-> "run_backtest", price_data |-> args.price_data])

\* the loop test holds and the loop body runs once
DoRunTick ==
    /\ run.pc = "loop"
    /\ BtTickDue(run)
    /\ RunStep(BtTick(Backtest, run),
               [op |-> "tick", price_index |-> run.price_index])

\* the loop test fails and run_backtest returns
DoRunEnd ==
    /\ run.pc = "loop"
    /\ ~BtTickDue(run)
    /\ RunStep(BtEndRun(Backtest, run), [op |-> "return"])

\* the leg goes to r.live; what it returns is what the caller holds
LiveStep(r, c) ==
    /\ context = "live"
    /\ live' = r.live
    /\ exchange' = r.exchange
    /\ leg_results' = IF r.ret = None THEN leg_results
                      ELSE Append(leg_results,
                                  [leg |-> r.live.leg, value |-> r.ret])
    /\ call' = c
    /\ ret' = r.ret
    /\ log' = r.log
    /\ UNCHANGED <<context, paperVars, btVars, feedVars, streamVars>>

\* the caller places a leg, one at a time
DoLiveCall(leg, leverage, key_ok) ==
    /\ live.pc \in {"idle", "returned"}
    /\ Len(leg_results) < MaxLegs
    /\ leverage => leg = "order"
    /\ LiveStep(LiveBegin(exchange, leg, leverage, key_ok),
                [op |-> "place", leg |-> leg])

DoLiveIndex(answer, sign_ok) ==
    /\ live.pc = "index"
    /\ LiveStep(LiveIndexDone(live, exchange, answer, sign_ok),
                [op |-> "get_asset_index", answer |-> answer])

DoLiveLeverage(outcome, sign_ok) ==
    /\ live.pc = "leverage"
    /\ LiveStep(LiveLeverageDone(live, exchange, outcome, sign_ok),
                [op |-> "_set_leverage", outcome |-> outcome])

DoLivePost(outcome, shape) ==
    /\ live.pc = "post"
    /\ LiveStep(LivePostDone(live, exchange, outcome, shape),
                [op |-> "post", outcome |-> outcome])

\* the market data service goes to r, the call returns r.ret
FeedStep(r, c) ==
    /\ context \in {"feed", "tiers"}
    /\ r.now <= MaxTime
    /\ price_cache' = r.cache
    /\ now' = r.now
    /\ fetched' = r.fetched
    /\ call' = c
    /\ ret' = r.ret
    /\ log' = r.log
    /\ UNCHANGED <<context, paperVars, btVars, streamVars, liveVars>>

DoFetchCurrentPrice(symbol, is_testnet, answers, delay) ==
    FeedStep(FetchCurrentPrice(price_cache, now, symbol, is_testnet, answers, delay),
             [op |-> "fetch_current_price", symbol |-> symbol,
              is_testnet |-> is_testnet, at |-> now])

\* a second passes between two calls
Tick ==
    /\ context \in {"feed", "tiers"}
    /\ now < MaxTime
    /\ now' = now + 1
    /\ UNCHANGED <<context, paperVars, btVars, streamVars, liveVars, price_cache, fetched,
                   call, ret, log>>

\* the price stream goes to r.st, the step logs r.log
StreamStep(r, c) ==
    /\ context \in {"stream", "tiers", "delivery"}
    /\ is_running' = r.st.is_running
    /\ symbols' = r.st.symbols
    /\ stream_cache' = r.st.price_cache
    /\ subscribers' = r.st.subscribers
    /\ loops' = r.st.loops
    /\ call' = c
    /\ ret' = None
    /\ log' = r.log
    /\ UNCHANGED <<context, paperVars, btVars, feedVars, liveVars>>

\* a new start() coroutine takes the first free place in loops
DoStreamStart(i, syms) ==
    /\ loops[i].pc \in {"unborn", "returned"}
    /\ \A j \in 1..(i - 1) : loops[j].pc \notin {"unborn", "returned"}
    /\ StreamStep(StreamStart(Stream, i, syms),
                  [op |-> "start", loop |-> i, symbols |-> syms])

DoGatherDone(i, results) ==
    /\ loops[i].pc = "gather"
    /\ StreamStep(GatherDone(Stream, i, results, now),
                  [op |-> "_poll_prices", loop |-> i, results |-> results])

DoCallbackDone(i, outcome) ==
    /\ loops[i].pc = "callback"
    /\ StreamStep(CallbackDone(Stream, i, outcome, now),
                  [op |-> "_publish_update", loop |-> i])

\* the await of the round ends in an exception
DoRoundRaised(i) ==
    /\ loops[i].pc = "gather"
    /\ StreamStep(RoundRaised(Stream, i), [op |-> "except", loop |-> i])

DoWake(i) ==
    /\ loops[i].pc = "sleep"
    /\ StreamStep(Wake(Stream, i), [op |-> "sleep", loop |-> i])

DoStreamStop ==
    StreamStep(StreamStop(Stream), [op |-> "stop"])

DoSubscribe(callback) ==
    /\ \A j \in 1..Len(subscribers) : subscribers[j] # callback
    /\ StreamStep(Subscribe(Stream, callback),
                  [op |-> "subscribe", callback |-> callback])

DoUnsubscribe(callback) ==
    StreamStep(Unsubscribe(Stream, callback),
               [op |-> "unsubscribe", callback |-> callback])

Next ==
    \/ \E s \in Symbols, side \in Sides, size \in Sizes, p \in Prices :
          DoPlaceOrder(s, side, size, p)
    \/ \E s \in Symbols, p \in Prices : DoClosePosition(s, p)
    \/ \E s \in Symbols, p \in MarkPrices : DoUpdatePositionPrice(s, p)
    \/ \E s \in Symbols, p \in StopPrices : DoSetStopLoss(s, p)
    \/ \E s \in Symbols, p \in StopPrices : DoSetTakeProfit(s, p)
    \/ DoReset
    \/ DoGetTotalPnl
    \/ \E t \in Times, s \in BtSymbols, a \in BtActions, p \in BtPrices,
          cfg \in SettingsSet : DoBtOpenPosition(t, s, a, p, cfg)
    \/ \E p \in BtPrices : DoBtUpdatePosition(p)
    \/ \E t \in Times, p \in BtPrices, why \in BtReasons :
          DoBtClosePosition(t, p, why)
    \/ DoBtResetState
    \/ \E t \in Times, p \in BtPrices, n \in {0, 1} : DoBtFinish(t, p, n)

NextFeed ==
    \/ \E s \in FeedSymbols, n \in Networks, a \in AnswerSets, d \in Delays :
          DoFetchCurrentPrice(s, n, a, d)
    \/ Tick

Spec == Init /\ [][Next]_vars

\* the same calls with arguments from the wide ranges
NextWide ==
    \/ \E s \in WideSymbols, side \in Sides, size \in WideSizes, p \in WidePrices :
          DoPlaceOrder(s, side, size, p)
    \/ \E s \in WideSymbols, p \in WidePrices : DoClosePosition(s, p)
    \/ \E s \in WideSymbols, p \in WidePrices : DoUpdatePositionPrice(s, p)
    \/ DoReset
    \/ \E t \in Times, s \in BtSymbols, a \in BtActions, p \in WideBtPrices,
          cfg \in SettingsSet : DoBtOpenPosition(t, s, a, p, cfg)
    \/ \E t \in Times, p \in WideBtPrices, why \in BtReasons :
          DoBtClosePosition(t, p, why)

SpecWide == Init /\ [][NextWide]_vars

NextStream ==
    \/ \E i \in 1..MaxLoops, syms \in SymbolLists : DoStreamStart(i, syms)
    \/ \E i \in 1..MaxLoops :
          \E results \in ResultsOf(loops[i].asked) :
             DoGatherDone(i, results)
    \/ \E i \in 1..MaxLoops, outcome \in {"returns", "raises"} :
          DoCallbackDone(i, outcome)
    \/ \E i \in 1..MaxLoops : DoRoundRaised(i)
    \/ \E i \in 1..MaxLoops : DoWake(i)
    \/ DoStreamStop
    \/ \E cb \in Callbacks : DoSubscribe(cb)
    \/ \E cb \in Callbacks : DoUnsubscribe(cb)

SpecStream == InitStream /\ [][NextStream]_vars

\* the event loop resumes every coroutine whose await is over: the
\* fetches answer or time out, a callback returns or raises, a sleep ends
LoopResumed(i) ==
    \/ \E results \in ResultsOf(loops[i].asked) :
          DoGatherDone(i, results)
    \/ \E outcome \in {"returns", "raises"} : DoCallbackDone(i, outcome)
    \/ DoWake(i)

\* one start() coroutine with the calls made around it
NextStreamLive ==
    \/ \E syms \in SymbolLists : DoStreamStart(1, syms)
    \/ LoopResumed(1)
    \/ DoRoundRaised(1)
    \/ DoStreamStop
    \/ \E cb \in Callbacks : DoSubscribe(cb)
    \/ \E cb \in Callbacks : DoUnsubscribe(cb)

SpecStreamLive ==
    /\ InitStream
    /\ [][NextStreamLive]_vars
    /\ WF_vars(LoopResumed(1))

SpecFeed == InitFeed /\ [][NextFeed]_vars

\* the arguments run_backtest is called with, and the decisions the run
\* will be handed, one for each tick (none where no ai_service is given)
RunArgs ==
    {[symbol |-> "BTC", end_date |-> e, interval_minutes |-> m, settings |-> cfg,
      ai_service |-> ai, price_data |-> ps, decisions |-> ds] :
        e \in EndDates, m \in Intervals, cfg \in RunSettings, ai \in BOOLEAN,
        ps \in UNION {[1..n -> BtPrices] : n \in 0..MaxTicks},
        ds \in UNION {[1..n -> Decisions] : n \in 0..MaxTicks}}

NextRun ==
    \/ \E args \in RunArgs :
          /\ Len(args.decisions) = Len(args.price_data)
          /\ args.ai_service \/ \A j \in 1..Len(args.decisions) :
                                   args.decisions[j] = None
          /\ DoRunBacktest(args)
    \/ DoRunTick
    \/ DoRunEnd

SpecRun == InitRun /\ [][NextRun]_vars

NextLive ==
    \/ \E leg \in LiveLegs, leverage \in BOOLEAN, key_ok \in BOOLEAN :
          DoLiveCall(leg, leverage, key_ok)
    \/ \E answer \in IndexAnswers, sign_ok \in BOOLEAN :
          DoLiveIndex(answer, sign_ok)
    \/ \E outcome \in PostOutcomes \cup {"unsigned"}, sign_ok \in BOOLEAN :
          DoLiveLeverage(outcome, sign_ok)
    \/ \E outcome \in PostOutcomes, shape \in ResultShapes :
          DoLivePost(outcome, shape)

SpecLive == InitLive /\ [][NextLive]_vars

\* runs on a new service, and calls with an empty series at any time
NextRunLive ==
    \/ \E args \in RunArgs :
          /\ run.pc = "idle"
          /\ args.price_data # <<>>
          /\ Len(args.decisions) = Len(args.price_data)
          /\ args.ai_service \/ \A j \in 1..Len(args.decisions) :
                                   args.decisions[j] = None
          /\ DoRunBacktest(args)
    \/ \E args \in RunArgs :
          /\ args.price_data = <<>>
          /\ args.decisions = <<>>
          /\ DoRunBacktest(args)
    \/ DoRunTick
    \/ DoRunEnd

\* the next step of a run_backtest under way, told by the loop test and
\* the record of the step: within NextRunLive these are the steps of
\* DoRunTick and DoRunEnd
RunResumed ==
    /\ run.pc = "loop"
    /\ call' = IF BtTickDue(run)
               THEN [op |-> "tick", price_index |-> run.price_index]
               ELSE [op |-> "return"]

\* the coroutine of run_backtest is resumed by the event loop until it
\* returns: every await inside the loop is on a coroutine of the service
\* itself that ends
SpecRunLive ==
    /\ InitRun
    /\ [][NextRunLive]_vars
    /\ WF_call(RunResumed)

\* buys on two symbols with stop loss and take profit set in between
NextAdding ==
    \/ \E s \in Symbols, size \in AddSizes, p \in Prices :
          DoPlaceOrder(s, "buy", size, p)
    \/ \E s \in Symbols, p \in StopPrices : DoSetStopLoss(s, p)
    \/ \E s \in Symbols, p \in StopPrices : DoSetTakeProfit(s, p)

SpecAdding == InitAdding /\ [][NextAdding]_vars

\* one start() coroutine delivering to subscribers that come and go
NextDelivery ==
    \/ \E syms \in SymbolLists : DoStreamStart(1, syms)
    \/ \E results \in ResultsOf(loops[1].asked) : DoGatherDone(1, results)
    \/ \E outcome \in {"returns", "raises"} : DoCallbackDone(1, outcome)
    \/ DoWake(1)
    \/ DoStreamStop
    \/ \E cb \in Callbacks : DoSubscribe(cb)
    \/ \E cb \in Callbacks : DoUnsubscribe(cb)

SpecDelivery == InitDelivery /\ [][NextDelivery]_vars

\* the price stream polling, without subscribers, while fetch_current_price
\* is called
NextTiers ==
    \/ \E i \in 1..MaxLoops, syms \in TierSymbolLists : DoStreamStart(i, syms)
    \/ \E i \in 1..MaxLoops :
          \E results \in ResultsOf(loops[i].asked) :
             DoGatherDone(i, results)
    \/ \E i \in 1..MaxLoops : DoWake(i)
    \/ DoStreamStop
    \/ \E s \in TierSymbols, a \in TierAnswerSets :
          DoFetchCurrentPrice(s, FALSE, a, 0)
    \/ Tick

SpecTiers == InitTiers /\ [][NextTiers]_vars

(***************************************************************************)
(* Properties.  The expected values below are written out from the         *)
(* ledger contract, not through the operators of the model.                *)
(***************************************************************************)
HasStatus(r, v) == "status" \in DOMAIN r /\ r.status = v

\* the call failed as far as its caller can tell
IsFailure(r) ==
    \/ HasStatus(r, "rejected")
    \/ HasStatus(r, "error")
    \/ ("success" \in DOMAIN r /\ ~r.success)
    \/ "raised" \in DOMAIN r

\* the close reason a Trade record carries
CloseReasonOf(t) ==
    IF "close_reason" \in DOMAIN t THEN t.close_reason
    ELSE IF "reason" \in DOMAIN t THEN t.reason
    ELSE "unrecorded"

\* (current - entry) * size for a long, (entry - current) * size for a short
ExpectedPnl(side, entry, current, size) ==
    IF side = "long"
    THEN Rat((current.num * entry.den - entry.num * current.den) * size.num,
             current.den * entry.den * size.den)
    ELSE Rat((entry.num * current.den - current.num * entry.den) * size.num,
             current.den * entry.den * size.den)

\* s2 is s1 with exactly one record appended
AppendedOne(s1, s2) ==
    Len(s2) = Len(s1) + 1 /\ SubSeq(s2, 1, Len(s1)) = s1

\* this step is a paper buy on a symbol that already has a position
BuyOnExisting ==
    /\ call'.op = "place_order"
    /\ call'.side = "buy"
    /\ call'.symbol \in DOMAIN positions

\* C1: opening a position for a symbol that already has one fails with a
\* PositionAlreadyOpen error and leaves the existing position and the
\* balance unchanged (never overwritten, never merged).
C1_OpenOnExistingFails ==
    [][BuyOnExisting =>
          /\ IsFailure(ret')
          /\ positions' = positions
          /\ balance' = balance]_vars

\* C2: after every mark-price call that leaves the position open, its
\* unrealized PnL is (current - entry) * size for a long and
\* (entry - current) * size for a short, at the marked price.
C2_UnrealizedPnlAfterMark ==
    /\ (call.op = "update_position_price" /\ call.symbol \in DOMAIN positions) =>
          LET p == positions[call.symbol]
          IN  /\ p.currentPrice = call.price
              /\ p.unrealizedPnl =
                   ExpectedPnl(p.side, p.entryPrice, call.price, p.size)
    /\ (call.op = "_update_position" /\ position # None) =>
          /\ position.current_price = call.price
          /\ position.unrealized_pnl =
               ExpectedPnl(position.side, position.entry_price, call.price,
                           position.size)

\* a short position marked at a price away from its entry
C2_Witness ==
    /\ call.op = "_update_position"
    /\ position # None
    /\ position.side = "short"
    /\ position.unrealized_pnl # RZero

\* C3: in every reachable ledger state the stored unrealized PnL of each open
\* position equals the value computed from its stored side, entry price,
\* current price and size.
C3_StoredPnlNeverDrifts ==
    /\ \A s \in DOMAIN positions :
          positions[s].unrealizedPnl =
             ExpectedPnl(positions[s].side, positions[s].entryPrice,
                         positions[s].currentPrice, positions[s].size)
    /\ position # None =>
          position.unrealized_pnl =
             ExpectedPnl(position.side, position.entry_price,
                         position.current_price, position.size)

\* this step is a paper sell of less than the position's size
PartialSell ==
    /\ call'.op = "place_order"
    /\ call'.side = "sell"
    /\ call'.symbol \in DOMAIN positions
    /\ RLt(call'.size, positions[call'.symbol].size)

\* C4: a reduce with a size smaller than the position's size is a partial
\* close: the position stays open, its size drops by exactly the closed size,
\* its entry price is unchanged and the realized PnL is on the closed size.
C4_PartialCloseReduces ==
    [][PartialSell =>
          LET s == call'.symbol
              old == positions[s]
          IN  /\ s \in DOMAIN positions'
              /\ positions'[s].size = RSub(old.size, call'.size)
              /\ positions'[s].entryPrice = old.entryPrice
              /\ "pnl" \in DOMAIN ret'
              /\ ret'.pnl = ExpectedPnl(old.side, old.entryPrice, call'.price,
                                        call'.size)]_vars

\* this step is a paper close of the whole position, or more
FullClose ==
    \/ /\ call'.op = "place_order"
       /\ call'.side = "sell"
       /\ call'.symbol \in DOMAIN positions
       /\ RGe(call'.size, positions[call'.symbol].size)
    \/ /\ call'.op = "close_position"
       /\ call'.symbol \in DOMAIN positions

\* C5: a close with a size >= the position's size removes the position,
\* emits exactly one Trade, and realizes the PnL of the full position size at
\* the given price (paper and backtest).
C5_FullCloseRemovesAndEmitsOneTrade ==
    [][/\ FullClose =>
            LET s == call'.symbol
                old == positions[s]
                full == ExpectedPnl(old.side, old.entryPrice, call'.price, old.size)
            IN  /\ s \notin DOMAIN positions'
                /\ AppendedOne(trade_history, trade_history')
                /\ Last(trade_history').symbol = s
                /\ Last(trade_history').size = old.size
                /\ Last(trade_history').exitPrice = call'.price
                /\ Last(trade_history').pnl = full
                /\ "pnl" \in DOMAIN ret' /\ ret'.pnl = full
       /\ (call'.op = "_close_position" /\ position # None) =>
            /\ position' = None
            /\ AppendedOne(trades, trades')
            /\ Last(trades').size = position.size
            /\ Last(trades').price = call'.price
            /\ Last(trades').pnl =
                 ExpectedPnl(position.side, position.entry_price, call'.price,
                             position.size)]_vars

\* a sell order larger than the position it closed, with a non-zero PnL
C5_Witness ==
    /\ call.op = "place_order"
    /\ call.side = "sell"
    /\ HasStatus(ret, "filled")
    /\ call.symbol \notin DOMAIN positions
    /\ Len(trade_history) > 0
    /\ RGt(call.size, Last(trade_history).size)
    /\ Last(trade_history).pnl # RZero

\* this step marks the price of an open long paper position
MarkLong ==
    /\ call'.op = "update_position_price"
    /\ call'.symbol \in DOMAIN positions
    /\ positions[call'.symbol].side = "long"

\* C6: marking a long position closes it fully at that price when
\* price <= stop_loss (close reason "stop_loss" recorded) or when
\* price >= take_profit (close reason "take_profit" recorded), and leaves it
\* open otherwise.
C6_LongTriggersCloseWithReason ==
    [][MarkLong =>
          LET s == call'.symbol
              old == positions[s]
              price == call'.price
              closedAs(why) ==
                  /\ s \notin DOMAIN positions'
                  /\ AppendedOne(trade_history, trade_history')
                  /\ Last(trade_history').exitPrice = price
                  /\ CloseReasonOf(Last(trade_history')) = why
          IN  IF old.stopLoss # None /\ RLe(price, old.stopLoss)
              THEN closedAs("stop_loss")
                   \/ (old.takeProfit # None /\ RGe(price, old.takeProfit)
                       /\ closedAs("take_profit"))
              ELSE IF old.takeProfit # None /\ RGe(price, old.takeProfit)
              THEN closedAs("take_profit")
              ELSE s \in DOMAIN positions']_vars

\* this step is a sell order on a symbol without a position
SellWithoutPosition ==
    /\ call'.op = "place_order"
    /\ call'.side = "sell"
    /\ call'.symbol \notin DOMAIN positions

\* C7: a short position can be opened (a sell on a symbol without a position
\* opens a short at the order's size and price), and a short's stop-loss
\* triggers when price >= stop_loss with PnL (entry - price) * size.
C7_SellOpensShort ==
    [][SellWithoutPosition =>
          /\ call'.symbol \in DOMAIN positions'
          /\ positions'[call'.symbol].side = "short"
          /\ positions'[call'.symbol].size = call'.size
          /\ positions'[call'.symbol].entryPrice = call'.price]_vars

\* C8: one mark-price call appends at most one Trade and credits the balance
\* at most once, even when the stop-loss and the take-profit condition both
\* hold; a mark-price for a symbol without a position changes nothing.
C8_TriggerClosesOnce ==
    [][call'.op = "update_position_price" =>
          LET s == call'.symbol
          IN  IF s \notin DOMAIN positions
              THEN UNCHANGED paperVars
              ELSE /\ \/ /\ trade_history' = trade_history
                         /\ orders' = orders
                         /\ balance' = balance
                         /\ s \in DOMAIN positions'
                      \/ /\ AppendedOne(trade_history, trade_history')
                         /\ AppendedOne(orders, orders')
                         /\ balance' = RAdd(balance, RMul(call'.price,
                                                         positions[s].size))
                         /\ s \notin DOMAIN positions'
                   /\ \A o \in DOMAIN positions \ {s} :
                         o \in DOMAIN positions' /\ positions'[o] = positions[o]]_vars

\* a mark-price at which both triggers held and the position was closed
C8_Witness ==
    /\ call.op = "update_position_price"
    /\ log = <<"Stop loss triggered", "Paper position closed",
               "Take profit triggered">>
    /\ call.symbol \notin DOMAIN positions
    /\ Len(trade_history) > 0
    /\ Last(trade_history).symbol = call.symbol

\* this step is a filled buy on a symbol that already has a position
AddToPosition ==
    /\ BuyOnExisting
    /\ HasStatus(ret', "filled")

\* C9: adding to a position sets the entry price to the size-weighted average
\* (old_entry * old_size + price * added) / (old_size + added), which lies
\* between the old entry and the fill price, and the size to old_size + added.
C9_AddToPositionAverages ==
    [][AddToPosition =>
          LET s == call'.symbol
              old == positions[s]
              new == positions'[s]
              total == RAdd(old.size, call'.size)
          IN  /\ new.size = total
              /\ RMul(new.entryPrice, total) =
                   RAdd(RMul(old.entryPrice, old.size),
                        RMul(call'.price, call'.size))
              /\ \/ RLe(old.entryPrice, new.entryPrice)
                    /\ RLe(new.entryPrice, call'.price)
                 \/ RLe(call'.price, new.entryPrice)
                    /\ RLe(new.entryPrice, old.entryPrice)]_vars

\* an add of a different size at a different price than the position held
C9_Witness ==
    /\ call.op = "place_order"
    /\ call.side = "buy"
    /\ HasStatus(ret, "filled")
    /\ call.symbol \in DOMAIN positions
    /\ positions[call.symbol].entryPrice # call.price
    /\ RSub(positions[call.symbol].size, call.size) # call.size
    /\ RGt(positions[call.symbol].size, call.size)

\* this step targets a symbol that has no open position
OnMissingPosition ==
    /\ \/ call'.op \in {"close_position", "update_position_price",
                        "set_stop_loss", "set_take_profit"}
       \/ (call'.op = "place_order" /\ call'.side = "sell")
    /\ call'.symbol \notin DOMAIN positions

\* C10: every ledger operation that targets a symbol with no open position
\* (close, mark price, set stop-loss, set take-profit) reports a
\* NoSuchPosition failure to the caller and changes nothing.
C10_MissingPositionFails ==
    [][OnMissingPosition => (IsFailure(ret') /\ UNCHANGED paperVars)]_vars


\* this step is a call whose size or price argument is zero or negative
NonPositiveArgument ==
    /\ call'.op \in {"place_order", "_open_position"}
    /\ \/ RLe(call'.price, RZero)
       \/ ("size" \in DOMAIN call' /\ RLe(call'.size, RZero))

\* C11: a ledger operation called with a size or a price that is zero or
\* negative is rejected and changes no state: not the balance, not the
\* positions, not the order log, not the trade history.
C11_NonPositiveRejected ==
    [][NonPositiveArgument =>
          /\ IsFailure(ret')
          /\ UNCHANGED <<paperVars, btVars>>]_vars

\* the open positions the paper engine holds for symbol s
OpenPositionsOf(s) == {k \in DOMAIN positions : positions[k].symbol = s}

\* C12: at most one open position per symbol.  The paper engine holds at
\* most one position record for a symbol, filed under that symbol; the
\* backtest holds one position at most, and an open attempted while it is
\* held leaves that position and the balance as they were.
C12_OnePositionPerSymbol ==
    /\ [](\A s \in Symbols :
            /\ Cardinality(OpenPositionsOf(s)) <= 1
            /\ OpenPositionsOf(s) \subseteq {s})
    /\ [][(call'.op = "_open_position" /\ position # None) =>
             (position' = position /\ bt_balance' = bt_balance)]_vars

C12_Witness ==
    /\ context = "backtest"
    /\ call.op = "_open_position"
    /\ position # None
    /\ position.entry_price # call.price
    /\ log = <<"Attempted to open position while one exists">>

\* the realized PnL of all the trades of a trade list, summed
RECURSIVE SumPnl(_)
SumPnl(ts) ==
    IF ts = <<>> THEN RZero
    ELSE RAdd(SumPnl(SubSeq(ts, 1, Len(ts) - 1)), Last(ts).pnl)

\* C13: whenever a ledger holds no open position, its balance is the initial
\* balance plus the realized PnL of all its Trades, long and short alike,
\* in the paper engine and in the backtest.
C13_BalanceIsInitialPlusRealized ==
    /\ (context = "paper" /\ DOMAIN positions = {}) =>
           balance = RAdd(initial_balance, SumPnl(trade_history))
    /\ (context = "backtest" /\ position = None) =>
           bt_balance = RAdd(R(InitialBalance), SumPnl(trades))

\* this step closes a paper position: the called symbol leaves the dict
PaperCloses ==
    /\ call'.op \in {"place_order", "close_position", "update_position_price"}
    /\ call'.symbol \in DOMAIN positions
    /\ DOMAIN positions' = DOMAIN positions \ {call'.symbol}

\* this step closes the backtest position
BacktestCloses ==
    /\ call'.op \in {"_close_position", "run_backtest_end"}
    /\ position # None
    /\ position' = None

\* C14: the Trade list is append-only.  Every close appends exactly one
\* Trade, no other operation appends one, and only a reset (paper) or the
\* start of a new backtest run empties the list; the records already in it
\* are never changed.
C14_TradesAppendOnly ==
    [][ /\ \/ trade_history' = trade_history /\ ~PaperCloses
           \/ AppendedOne(trade_history, trade_history') /\ PaperCloses
           \/ call'.op = "reset" /\ trade_history' = <<>>
        /\ \/ trades' = trades /\ ~BacktestCloses
           \/ AppendedOne(trades, trades') /\ BacktestCloses
           \/ call'.op = "run_backtest" /\ trades' = <<>> ]_vars

C14_Witness ==
    /\ context = "paper"
    /\ Len(trade_history) = 1
    /\ call.op = "update_position_price"
    /\ Len(orders) = 2

\* this step is a paper buy that costs more than the balance holds
BuyBeyondBalance ==
    /\ call'.op = "place_order"
    /\ call'.side = "buy"
    /\ call'.size.num * call'.price.num * balance.den
         > balance.num * call'.size.den * call'.price.den

\* C15: a trade rejected by a pre-trade check is never partially applied.
\* A buy that costs more than the balance is rejected with the reason
\* "Insufficient balance", and whenever a call returns a rejection it names
\* its reason and the balance, the positions, the order log and the trade
\* history are what they were before the call.
C15_RejectionChangesNothing ==
    [][ /\ BuyBeyondBalance =>
              /\ HasStatus(ret', "rejected")
              /\ ret'.reason = "Insufficient balance"
        /\ HasStatus(ret', "rejected") =>
              /\ ret'.reason \in {"Insufficient balance", "No position to close"}
              /\ UNCHANGED <<paperVars, btVars>> ]_vars

C15_Witness ==
    /\ call.op = "place_order"
    /\ HasStatus(ret, "rejected")
    /\ ret.reason = "Insufficient balance"
    /\ DOMAIN positions # {}
    /\ RLt(balance, initial_balance)

\* the funds committed to the held paper positions: entry price * size, summed
RECURSIVE Committed(_, _)
Committed(ps, keys) ==
    IF keys = {} THEN RZero
    ELSE LET k == CHOOSE x \in keys : TRUE
         IN  RAdd(RMul(ps[k].entryPrice, ps[k].size), Committed(ps, keys \ {k}))

\* margin usage of the paper account is at least n/10: the committed funds
\* against the account value (free balance plus committed funds)
MarginUsageAtLeast(n) ==
    LET used == Committed(positions, DOMAIN positions)
        value == RAdd(balance, used)
    IN  RGt(value, RZero) /\ RGe(RMul(used, R(10)), RMul(value, R(n)))

\* C16: before a position is opened the intent passes a risk gate: at a
\* margin usage of 0.90 or more the order is rejected with
\* MarginUsageCritical, at 0.80 or more with MarginUsageHigh, and nothing is
\* opened.
C16_RiskGateRejectsHighMargin ==
    [][(/\ call'.op = "place_order" /\ call'.side = "buy"
        /\ RGt(call'.size, RZero) /\ RGt(call'.price, RZero)
        /\ MarginUsageAtLeast(8)) =>
          /\ HasStatus(ret', "rejected")
          /\ ret'.reason = IF MarginUsageAtLeast(9) THEN "MarginUsageCritical"
                           ELSE "MarginUsageHigh"
          /\ UNCHANGED paperVars]_vars

\* this step is the clock advancing and nothing else
TimePasses == now' = now + 1 /\ UNCHANGED <<price_cache, fetched, call, ret, log>>

\* this step is a call of fetch_current_price
Fetches == call'.op = "fetch_current_price" /\ ~TimePasses

\* the last call was a fetch_current_price that returned a price
Succeeded == call.op = "fetch_current_price" /\ "raised" \notin DOMAIN ret

\* this step is a second call for the symbol and network of the last call,
\* made within CACHE_DURATION seconds of it
SecondCallWithinTTL ==
    /\ Fetches
    /\ call.op = "fetch_current_price"
    /\ call'.symbol = call.symbol
    /\ call'.is_testnet = call.is_testnet
    /\ call'.at - call.at < 5

CallOnFreshEntry ==
    /\ Fetches
    /\ call'.symbol \in DOMAIN price_cache
    /\ call'.at - price_cache[call'.symbol].timestamp < 5

NetworksOfKey(k) ==
    {n \in Networks : \E s \in FeedSymbols : CacheKey(s, n) = k}

\* C18: the price cache is separated by network (mainnet / testnet): every
\* entry is filed under a key of one network only, so a mainnet fetch
\* creates an entry under the mainnet key and none that a testnet lookup
\* finds.
C18_CacheSeparatedByNetwork ==
    \A k \in DOMAIN price_cache : Cardinality(NetworksOfKey(k)) = 1

\* this step is a call for a symbol whose entry is missing or expired
CallOnMiss ==
    /\ Fetches
    /\ \/ call'.symbol \notin DOMAIN price_cache
       \/ call'.at - price_cache[call'.symbol].timestamp >= 5

\* C19: on a cache miss or an expired entry the sources are asked strictly
\* in the order Hyperliquid, Binance, KuCoin, each only after the ones
\* before it gave no price (nothing, or 0.0); the first price given is
\* returned and filed in the cache under the time the call returns, and no
\* source after it is asked.
C19_SourcesInPriorityOrder ==
    [][CallOnMiss =>
          LET n == Len(fetched')
              priority == <<"hyperliquid", "binance", "kucoin">>
          IN  /\ n \in 1..3
              /\ \A i \in 1..n : /\ fetched'[i].source = priority[i]
                                 /\ fetched'[i].symbol = call'.symbol
              /\ fetched'[1].is_testnet = call'.is_testnet
              /\ \A i \in 1..(n - 1) : fetched'[i].result \notin FeedPrices
              /\ fetched'[n].result \in FeedPrices =>
                    /\ ret' = fetched'[n].result
                    /\ call'.symbol \in DOMAIN price_cache'
                    /\ price_cache'[call'.symbol] =
                          [price |-> fetched'[n].result, timestamp |-> now']
                    /\ now' >= call'.at
              /\ fetched'[n].result \notin FeedPrices => n = 3]_vars

\* Hyperliquid answered 0.0, Binance a price that replaced an expired entry
C19_Witness ==
    /\ call.op = "fetch_current_price"
    /\ Len(fetched) = 2
    /\ fetched[1].result = RZero
    /\ fetched[2].result = R(101)
    /\ ret = R(101)
    /\ call.at = 5
    /\ price_cache[call.symbol] = [price |-> R(101), timestamp |-> now]

\* this step is a call on an expired entry during which every source asked
\* gave no price
ExpiredAndAllFail ==
    /\ Fetches
    /\ call'.symbol \in DOMAIN price_cache
    /\ call'.at - price_cache[call'.symbol].timestamp >= 5
    /\ \A i \in 1..Len(fetched') : fetched'[i].result \notin FeedPrices

\* C20: when the entry for the symbol has expired and every source fails,
\* the call returns the stale cached price instead of failing, and leaves
\* the entry as it is.
C20_StaleFallback ==
    [][ExpiredAndAllFail =>
          /\ ret' = price_cache[call'.symbol].price
          /\ price_cache' = price_cache]_vars

C20_Witness ==
    /\ call.op = "fetch_current_price"
    /\ Len(fetched) = 3
    /\ \A i \in 1..3 : fetched[i].result \notin FeedPrices
    /\ call.symbol \in DOMAIN price_cache
    /\ call.at >= price_cache[call.symbol].timestamp + 5
    /\ ret = price_cache[call.symbol].price
    /\ log = <<"Using stale cached price">>

FreshSnapshot(symbol) ==
    /\ GetSnapshot(Stream, symbol) # None
    /\ now - GetSnapshot(Stream, symbol).timestamp < 5

\* C22: a fetch_current_price call made while the price stream holds a
\* snapshot for the symbol younger than 5 s returns that snapshot's price
\* and asks no price source.
C22_StreamSnapshotServedFirst ==
    [][(Fetches /\ FreshSnapshot(call'.symbol))
          => /\ ret' = GetPrice(Stream, call'.symbol)
             /\ fetched' = <<>>]_vars

\* the events of this step that call a subscriber
Notifications == SelectSeq(log', LAMBDA x : x.ev = "notified")

\* this step is a step of a start() coroutine that calls a subscriber
Notifies == call'.op \in {"_poll_prices", "_publish_update"} /\ Notifications # <<>>

\* C23: no subscriber is called once stop() has returned, also when stop()
\* was called with fetches awaited or a delivery under way: every step
\* that calls a subscriber is taken with is_running set.
C23_NoNotificationAfterStop ==
    [][Notifies => is_running]_vars

\* the start() coroutines with a poll round under way: fetches awaited or
\* notifications being delivered
InRound == {i \in 1..MaxLoops : loops[i].pc \in {"gather", "callback"}}

\* C24: poll rounds never overlap, whatever start() and stop() calls were
\* made: at most one round is under way at any time.
C24_RoundsNeverOverlap == Cardinality(InRound) <= 1

\* C25: the stream is Stopped or Running: start() leaves it Running, stop()
\* leaves it Stopped whatever it was before and changes nothing else of
\* the service, and no other step changes the state.
C25_StoppedRunningStopped ==
    [][/\ call'.op = "start" => is_running'
       /\ call'.op = "stop" =>
             /\ ~is_running'
             /\ UNCHANGED <<symbols, stream_cache, subscribers, loops>>
       /\ call'.op \notin {"start", "stop"} => UNCHANGED is_running]_vars

\* stop() has just returned on a stream whose loop had already ended
C25_Witness ==
    /\ call.op = "stop"
    /\ ~is_running
    /\ \E i \in 1..MaxLoops : loops[i].pc = "returned"

\* this step is a step of the i-th start() coroutine inside a poll round
StepOfLoop(i) ==
    /\ call'.op \in {"_poll_prices", "_publish_update"}
    /\ call'.loop = i

\* the step ends in the call of the first subscriber for a snapshot
DeliveryBegins(i) ==
    /\ StepOfLoop(i)
    /\ loops'[i].pc = "callback"
    /\ loops'[i].k = 1

\* the step goes on with a delivery begun in an earlier step
DeliveryGoesOn(i) ==
    /\ StepOfLoop(i)
    /\ loops[i].pc = "callback"
    /\ loops'[i].pc = "callback"
    /\ loops'[i].k > 1
    /\ loops'[i].snapshot = loops[i].snapshot

\* the step caches a price for the symbol that differs from the one
\* cached before, or caches one where none was cached
NewPrice(symbol) ==
    /\ CacheGet(stream_cache', symbol) # None
    /\ \/ CacheGet(stream_cache, symbol) = None
       \/ CacheGet(stream_cache, symbol).price # CacheGet(stream_cache', symbol).price

\* C26: the subscribers are notified of a symbol exactly when a fetch has
\* brought a price that differs from the cached one, or a first price: a
\* delivery begins only for such a price and with it, such a price begins
\* a delivery whenever there is a subscriber, and a step in which no
\* delivery begins or goes on notifies nobody.
C26_NotifiedIffPriceChanged ==
    [][\A i \in 1..MaxLoops : StepOfLoop(i) =>
          /\ DeliveryBegins(i) =>
                LET snapshot == loops'[i].snapshot
                IN  /\ NewPrice(snapshot.symbol)
                    /\ CacheGet(stream_cache', snapshot.symbol) = snapshot
                    /\ Notifications =
                          <<[ev |-> "notified", loop |-> i,
                             subscriber |-> subscribers[1],
                             symbol |-> snapshot.symbol,
                             price |-> snapshot.price]>>
          /\ \A s \in DOMAIN stream_cache' :
                (NewPrice(s) /\ subscribers # <<>>) =>
                   DeliveryBegins(i) /\ loops'[i].snapshot.symbol = s
          /\ Notifications # <<>> => DeliveryBegins(i) \/ DeliveryGoesOn(i)]_vars

\* a round in which one symbol came back with its cached price, unnoticed,
\* and the other with a new price, of which a subscriber is notified
C26_Witness ==
    /\ call.op = "_poll_prices"
    /\ \E j \in 1..Len(log) : log[j].ev = "unchanged"
    /\ \E j \in 1..Len(log) : log[j].ev = "notified"

\* this step resumes the i-th coroutine after the callback it awaited raised
Raised(i) ==
    /\ call'.op = "_publish_update"
    /\ call'.loop = i
    /\ log' # <<>>
    /\ log'[1].ev = "callback_error"

\* C27: after a callback raised, the next subscriber of the list is called
\* with the same snapshot; after the last subscriber the round goes on with
\* the next symbol, which is cached and delivered as usual; and the
\* coroutine ends the round asleep, not returned.
C27_RaisingCallbackIsolated ==
    [][\A i \in 1..MaxLoops : Raised(i) =>
          LET k == loops[i].k
              rest == loops[i].round
          IN  /\ loops'[i].pc \in {"callback", "sleep"}
              /\ k < Len(subscribers) =>
                    /\ loops'[i].pc = "callback"
                    /\ loops'[i].k = k + 1
                    /\ loops'[i].snapshot = loops[i].snapshot
                    /\ Notifications =
                          <<[ev |-> "notified", loop |-> i,
                             subscriber |-> subscribers[k + 1],
                             symbol |-> loops[i].snapshot.symbol,
                             price |-> loops[i].snapshot.price]>>
              /\ (k >= Len(subscribers) /\ rest = <<>>) => loops'[i].pc = "sleep"
              /\ (k >= Len(subscribers) /\ rest # <<>>) =>
                    LET symbol == Head(rest).symbol
                        result == Head(rest).result
                    IN  /\ result # None =>
                              CacheGet(stream_cache', symbol).price = result
                        /\ (NewPrice(symbol) /\ subscribers # <<>>) =>
                              /\ DeliveryBegins(i)
                              /\ loops'[i].snapshot.symbol = symbol
                              /\ loops'[i].snapshot.price = result]_vars

\* the first subscriber raised and the second one has been called
C27_Witness ==
    /\ call.op = "_publish_update"
    /\ Len(log) = 2
    /\ log[1].ev = "callback_error"
    /\ log[2].ev = "notified"
    /\ Len(subscribers) = 2
    /\ log[2].subscriber = subscribers[2]

\* the symbol is named by a notification of this step
NotifiedOf(symbol) ==
    \E j \in 1..Len(Notifications) : Notifications[j].symbol = symbol

\* the i-th coroutine is resumed with the results of its fetches
Gathered(i) == call'.op = "_poll_prices" /\ call'.loop = i

\* the first symbol of the round whose fetch gave a price, 0 if none did
FirstFetched(results) ==
    IF \A j \in 1..Len(results) : results[j] = None THEN 0
    ELSE CHOOSE j \in 1..Len(results) :
            /\ results[j] # None
            /\ \A h \in 1..(j - 1) : results[h] = None

\* C28: a symbol whose fetch failed keeps its cached snapshot and is not
\* notified, in the step that receives the results and in the later step
\* of the round that comes to it; the symbols around it are cached and
\* delivered as usual, and a round of failures only ends asleep.
C28_FailedSymbolSkipped ==
    [][\A i \in 1..MaxLoops :
          /\ Gathered(i) =>
                LET results == call'.results
                    j == FirstFetched(results)
                IN  /\ \A h \in 1..Len(results) : results[h] = None =>
                          /\ CacheGet(stream_cache', symbols[h]) =
                                CacheGet(stream_cache, symbols[h])
                          /\ ~NotifiedOf(symbols[h])
                    /\ j = 0 => loops'[i].pc = "sleep" /\ Notifications = <<>>
                    /\ j # 0 =>
                          /\ CacheGet(stream_cache', symbols[j]).price = results[j]
                          /\ (NewPrice(symbols[j]) /\ subscribers # <<>>) =>
                                /\ DeliveryBegins(i)
                                /\ loops'[i].snapshot.symbol = symbols[j]
          /\ (/\ call'.op = "_publish_update"
              /\ call'.loop = i
              /\ loops[i].k >= Len(subscribers)
              /\ loops[i].round # <<>>
              /\ Head(loops[i].round).result = None) =>
                LET symbol == Head(loops[i].round).symbol
                IN  /\ CacheGet(stream_cache', symbol) = CacheGet(stream_cache, symbol)
                    /\ ~NotifiedOf(symbol)
                    /\ Tail(loops[i].round) = <<>> => loops'[i].pc = "sleep"]_vars

\* the round has just got no price for BTCUSD, which stays uncached, and a
\* price for ETHUSD, of which a subscriber is notified
C28_Witness ==
    /\ call.op = "_poll_prices"
    /\ call.results[1] = None
    /\ call.results[2] # None
    /\ CacheGet(stream_cache, "BTCUSD") = None
    /\ CacheGet(stream_cache, "ETHUSD") # None
    /\ \E j \in 1..Len(log) : log[j].ev = "notified" /\ log[j].symbol = "ETHUSD"

\* C29: a start() coroutine returns only with is_running cleared; a round
\* under way comes to its end, be it with every fetch failed or with an
\* exception; and after the end of a round the coroutine starts another
\* round unless the stream has been stopped.
C29_LoopGoesOn ==
    /\ [][\A i \in 1..MaxLoops :
             (loops[i].pc # "returned" /\ loops'[i].pc = "returned")
                => ~is_running]_vars
    /\ (loops[1].pc \in {"gather", "callback"}) ~> (loops[1].pc = "sleep")
    /\ (loops[1].pc = "sleep" /\ is_running)
          ~> (loops[1].pc = "gather" \/ ~is_running)

\* a round has just ended in an exception and the coroutine sleeps on a
\* running stream
C29_Witness ==
    /\ is_running
    /\ call.op = "except"
    /\ loops[call.loop].pc = "sleep"

\* C30: the step that ends a run leaves no position open; a position that
\* was open is closed at the last price of the series by one more trade,
\* whose reason is "period_ended" and which is among the trades returned.
C30_OpenPositionForceClosed ==
    [][call'.op = "run_backtest_end" =>
          /\ position' = None
          /\ position # None =>
                /\ Len(trades') = Len(trades) + 1
                /\ Last(trades').action = "close"
                /\ Last(trades').price = call'.final_price
                /\ Last(trades').reasoning = "period_ended"
                /\ ret'.trades = trades']_vars

\* the start() coroutines that have been called and have not returned
ActiveLoops == {i \in 1..MaxLoops : loops[i].pc \in {"gather", "callback", "sleep"}}

\* C35: at most one poll loop of the stream is active at any time: the
\* loop of an earlier start() is over before the loop of a new start()
\* polls.
C35_OneActiveLoop == Cardinality(ActiveLoops) <= 1

\* this step ends the delivery the i-th coroutine was in
DeliveryEnds(i) ==
    /\ StepOfLoop(i)
    /\ loops[i].pc = "callback"
    /\ ~DeliveryGoesOn(i)

\* how many times the callback occurs in the list
Occurrences(list, callback) ==
    Cardinality({j \in 1..Len(list) : list[j] = callback})

\* C36: when the delivery of a snapshot ends, every callback that was
\* subscribed when it began and still is has been called exactly once for
\* it, whatever subscribe() and unsubscribe() calls were made meanwhile.
C36_EachSubscriberOnce ==
    [][DeliveryEnds(1) =>
          \A c \in Callbacks :
             (Occurrences(loops[1].listed, c) > 0 /\ Occurrences(subscribers, c) > 0)
                => Occurrences(loops[1].told, c) = 1]_vars

\* a source asked by this call answered with a price
SourceGavePrice ==
    \E i \in 1..Len(fetched') : fetched'[i].result \in FeedPrices

\* C37: a fetch_current_price call changes no cache entry of another
\* symbol, and changes the entry of its own symbol only by filing the
\* price a source has just returned; a hit, a stale fallback and a failure
\* leave the whole cache as it was, and a call that finds an entry of 5 s
\* or more asks the sources again.
C37_CacheChangesOnlyOnSourcePrice ==
    [][Fetches =>
          /\ \A s \in FeedSymbols \ {call'.symbol} :
                CacheGet(price_cache', s) = CacheGet(price_cache, s)
          /\ ~SourceGavePrice => price_cache' = price_cache
          /\ SourceGavePrice =>
                /\ CacheGet(price_cache', call'.symbol).price = ret'
                /\ \E i \in 1..Len(fetched') : fetched'[i].result = ret'
          /\ (/\ CacheGet(price_cache, call'.symbol) # None
              /\ call'.at - CacheGet(price_cache, call'.symbol).timestamp >= 5)
                => fetched' # <<>>]_vars

\* a stale entry has just been served as fallback and is as stale as before
C37_Witness ==
    /\ call.op = "fetch_current_price"
    /\ ret \in FeedPrices
    /\ fetched # <<>>
    /\ \A i \in 1..Len(fetched) : fetched[i].result \notin FeedPrices
    /\ CacheGet(price_cache, call.symbol) # None
    /\ now - CacheGet(price_cache, call.symbol).timestamp >= 5

\* C38: a buy filled on a symbol that has a position keeps the stop loss
\* and the take profit of that position, leaves the positions of all
\* other symbols as they were, and takes exactly size * price off the
\* balance.
C38_AddKeepsStopsAndOthers ==
    [][(BuyOnExisting /\ HasStatus(ret', "filled")) =>
          LET s == call'.symbol
          IN  /\ positions'[s].stopLoss = positions[s].stopLoss
              /\ positions'[s].takeProfit = positions[s].takeProfit
              /\ DOMAIN positions' = DOMAIN positions
              /\ \A o \in DOMAIN positions \ {s} : positions'[o] = positions[o]
              /\ balance' =
                    Rat(balance.num * call'.size.den * call'.price.den
                          - call'.size.num * call'.price.num * balance.den,
                        balance.den * call'.size.den * call'.price.den)]_vars

\* a buy has just been added to a position that carries a stop loss and a
\* take profit, while the other symbol has a position too
C38_Witness ==
    /\ call.op = "place_order"
    /\ HasStatus(ret, "filled")
    /\ DOMAIN positions = Symbols
    /\ positions[call.symbol].size = R(2)
    /\ positions[call.symbol].stopLoss # None
    /\ positions[call.symbol].takeProfit # None
    /\ Len(orders) = 3

\* the unrealized PnL of the open positions, each taken at its current price
RECURSIVE ExpectedUnrealized(_)
ExpectedUnrealized(keys) ==
    IF keys = {} THEN RZero
    ELSE LET k == CHOOSE x \in keys : TRUE
             p == positions[k]
         IN  RAdd(ExpectedPnl(p.side, p.entryPrice, p.currentPrice, p.size),
                  ExpectedUnrealized(keys \ {k}))

\* C39: get_total_pnl returns the realized PnL of all closed trades plus
\* the unrealized PnL of all open positions, in every state of the paper
\* engine.
C39_TotalPnlIsRealizedPlusUnrealized ==
    [][call'.op = "get_total_pnl" =>
          ret' = RAdd(SumPnl(trade_history), ExpectedUnrealized(DOMAIN positions))]_vars

\* where x first stands in the list, 0 when it does not
FirstAt(list, x) ==
    IF \E j \in 1..Len(list) : list[j] = x
    THEN CHOOSE j \in 1..Len(list) :
             list[j] = x /\ \A k \in 1..(j - 1) : list[k] # x
    ELSE 0

\* RiskGate, check 4, on the synthetic account of a backtest (account value
\* = the running balance, no margin in use): the required initial margin
\* size * price / leverage exceeds half the account value
PositionTooLarge(size, price, leverage, accountValue) ==
    RGt(RDiv(RMul(size, price), leverage), RMul(accountValue, Rat(1, 2)))

\* the balance a tick's _open_position found: the position value it took
\* off is given back
BalanceBeforeOpen == RAdd(bt_balance', RMul(position'.size, position'.entry_price))

\* a tick marks and trigger-checks the open position before it asks for a
\* decision, and asks only with no position open
TickOrder ==
    [][call'.op = "tick" =>
          /\ position # None => log'[1] = "mark"
          /\ FirstAt(log', "decide") > 0 =>
                /\ FirstAt(log', "mark") < FirstAt(log', "decide")
                /\ position = None \/ FirstAt(log', "close") \in
                                         1..(FirstAt(log', "decide") - 1)
          /\ FirstAt(log', "open") > 0 =>
                FirstAt(log', "open") = FirstAt(log', "decide") + 1]_vars

\* a tick has marked a position, closed it on its trigger, asked for a
\* decision and opened the next position
TickOrder_Witness ==
    /\ call.op = "tick"
    /\ log = <<"mark", "close", "decide", "open", "equity">>

\* C31: in each tick of a backtest the open position is marked to the tick
\* price and trigger-checked before any decision is evaluated, a decision
\* is evaluated only when no position is open, and a position is opened
\* only for an intent the risk gate lets through.
C31_TickOrderAndRiskGate ==
    [][call'.op = "tick" =>
          /\ position # None => log'[1] = "mark"
          /\ FirstAt(log', "decide") > 0 =>
                /\ FirstAt(log', "mark") < FirstAt(log', "decide")
                /\ position = None \/ FirstAt(log', "close") \in
                                         1..(FirstAt(log', "decide") - 1)
          /\ FirstAt(log', "open") > 0 =>
                /\ FirstAt(log', "open") = FirstAt(log', "decide") + 1
                /\ ~PositionTooLarge(position'.size, position'.entry_price,
                                     run.settings.leverage, BalanceBeforeOpen)]_vars

\* a service as constructed
FreshService ==
    [balance |-> R(InitialBalance), position |-> None, trades |-> <<>>]

\* the arguments of the call of run_backtest under way
ArgsOfRun ==
    [symbol |-> run.symbol, end_date |-> run.end_date,
     interval_minutes |-> run.interval_minutes, settings |-> run.settings,
     ai_service |-> run.ai_service, price_data |-> run.price_data,
     decisions |-> run.decisions]

\* C32: a run of run_backtest returns the result that the same price
\* series, settings, period and decisions give on a service just
\* constructed, whatever runs the service went through before: two runs
\* with identical inputs return identical trades, equity curve and final
\* balance.
C32_ResultDependsOnInputsOnly ==
    [][call'.op = "return" =>
          ret' = BtRunOn(BtStartRun(FreshService, NoRun, ArgsOfRun).st,
                         [BtStartRun(FreshService, NoRun, ArgsOfRun).run
                              EXCEPT !.reused = run.reused])]_vars

\* a run on a service that carried the trades of an earlier run has
\* returned, with no trade of its own
C32_Witness ==
    /\ call.op = "return"
    /\ run.reused
    /\ ret.trades = <<>>
    /\ Len(ret.equity_curve) = MaxTicks

\* two isoformat strings of one run compared as strings
IsoLe(a, b) == a[1] < b[1] \/ (a[1] = b[1] /\ a[2] <= b[2])

\* the passes of the loop of run_backtest, its end and its start, step by
\* step
RunTicksInOrder ==
    [][/\ call'.op = "tick" =>
             /\ run.price_index < Len(run.price_data)
             /\ run.current_time <= run.end_date
             /\ run'.price_index = run.price_index + 1
             /\ run'.price_data = run.price_data
             /\ position' # None =>
                   position'.current_price = run.price_data[run.price_index + 1]
             /\ Len(run'.equity_curve) = run'.price_index
             /\ SubSeq(run'.equity_curve, 1, run.price_index) = run.equity_curve
             /\ \A j \in 1..run.price_index :
                   IsoLe(run'.equity_curve[j].timestamp,
                         Last(run'.equity_curve).timestamp)
       /\ call'.op = "return" =>
             \/ run.current_time > run.end_date
             \/ run.price_index = Len(run.price_data)
       /\ (call'.op = "run_backtest" /\ call'.price_data = <<>>) =>
             /\ ret' = [raised |-> "ValueError"]
             /\ UNCHANGED <<btVars>>
       /\ (call'.op = "run_backtest" /\ call'.price_data # <<>>) =>
             /\ run'.pc = "loop"
             /\ run'.price_index = 0]_vars

\* C40: run_backtest on a non-empty series returns, for interval 0 as for
\* any other: each pass of the loop takes the next price of the series,
\* once, at a time not after end_date, and appends one equity point whose
\* timestamp is not before the one before it; the loop is left when the
\* time has passed end_date or the series is used up.  On an empty series
\* the call raises and leaves the state of the service as it was.
C40_RunTerminates ==
    /\ RunTicksInOrder
    /\ (run.pc = "loop") ~> (run.pc = "returned")

\* a run with interval 0 over a full series has returned with one equity
\* point for each price, and a run stopped by end_date before the series
\* was used up
C40_Witness ==
    /\ call.op = "return"
    /\ Len(ret.equity_curve) = MaxTicks
    /\ ret.equity_curve[1].timestamp = ret.equity_curve[MaxTicks].timestamp

\* a call with an empty series has raised on a service that holds the
\* trades of an earlier run
EmptySeriesRaised ==
    /\ call.op = "run_backtest"
    /\ ret = [raised |-> "ValueError"]
    /\ trades # <<>>

IsOrder(payload) == payload.type = "order"
IsSubmit(event) == event.step = "submit"
OrdersOf(ex) == Len(SelectSeq(ex, IsOrder))
HasEv(events, step, ok) == \E j \in 1..Len(events) : events[j] = Ev(step, ok)

\* a leg has just returned
LegReturns == leg_results' # leg_results

\* C33: each leg returns a result value of its own: a failure of the key,
\* of the asset index request, of the signer or of the POST gives
\* success = False with an error and is never raised; what earlier legs
\* returned stays as it was, and nothing the exchange has received is
\* taken back.
C33_EachLegReportsItsOutcome ==
    [][/\ LegReturns =>
             /\ leg_results' = Append(leg_results,
                                      [leg |-> live'.leg, value |-> ret'])
             /\ "success" \in DOMAIN ret'
             /\ ~Last(live'.events).ok =>
                   /\ ret'.success = FALSE
                   /\ "error" \in DOMAIN ret'
             /\ ret'.success => Last(live'.events) = Ev("submit", TRUE)
       /\ Len(exchange') >= Len(exchange)
       /\ SubSeq(exchange', 1, Len(exchange)) = exchange]_vars

\* the main order succeeded and the stop loss placed after it failed: the
\* caller holds both results and the exchange holds the order
C33_Witness ==
    /\ Len(leg_results) = 2
    /\ leg_results[1].leg = "order" /\ leg_results[1].value.success
    /\ leg_results[2].leg = "stop_loss" /\ ~leg_results[2].value.success
    /\ exchange = <<[type |-> "order", leg |-> "order"]>>

\* what a leg has done when it posts its order: wallet, asset index, the
\* leverage update where one was asked for (failed or not), signature
DoneBeforePost(lv) ==
    {<<Ev("wallet", TRUE), Ev("index", TRUE)>> \o mid \o <<Ev("sign", TRUE)>> :
        mid \in IF lv.leg = "order" /\ lv.leverage
                THEN {<<Ev("leverage", TRUE)>>, <<Ev("leverage", FALSE)>>}
                ELSE {<<>>}}

\* C34: an order payload is posted only by a leg that has resolved the
\* asset index, then attempted the leverage update if one was asked for,
\* then signed, in that order; a leg whose index request or signer failed
\* posts nothing, and a call posts at most one order.
C34_OrderAfterIndexLeverageSign ==
    [][/\ call'.op = "post" => live.events \in DoneBeforePost(live)
       /\ OrdersOf(exchange') # OrdersOf(exchange) =>
             /\ call'.op = "post"
             /\ OrdersOf(exchange') = OrdersOf(exchange) + 1
       /\ LegReturns =>
             /\ Len(SelectSeq(live'.events, IsSubmit)) <= 1
             /\ (HasEv(live'.events, "index", FALSE)
                    \/ HasEv(live'.events, "sign", FALSE)
                    \/ HasEv(live'.events, "wallet", FALSE)) =>
                   /\ SelectSeq(live'.events, IsSubmit) = <<>>
                   /\ OrdersOf(exchange') = OrdersOf(exchange)]_vars

\* an order with leverage has been placed: the leverage update failed, the
\* order was signed and posted all the same and the exchange accepted it
C34_Witness ==
    /\ call.op = "post"
    /\ live.leg = "order"
    /\ live.events = <<Ev("wallet", TRUE), Ev("index", TRUE), Ev("leverage", FALSE),
                       Ev("sign", TRUE), Ev("submit", TRUE)>>
    /\ ret.success

=============================================================================
